---------------------------- MODULE Spec2Model ----------------------------
(* A model of the activity-rule editor's export pipeline and style editing: *)
(*   - OffscreenExporter / renderPageToDataURL (renderer/canvas/index.tsx)  *)
(*   - exportPagesToPng (renderer/canvas/index.tsx)                         *)
(*   - PreviewPage.onExport and PreviewPage.setStyleDebounced (preview page)*)
EXTENDS Integers, Naturals, Sequences, FiniteSets, TLC

----------------------------------------------------------------------------
(* Bounds of the model *)

\* heights are counted in 1/Sub pixel, so that sub-pixel changes exist
Sub == 2
\* number of height reports (setH calls) one OffscreenExporter receives
MaxReports == 5
\* number of times the export button is pressed
MaxRuns == 2
\* number of progress events the packaging collaborator emits in one run
MaxEvents == 3
\* number of style inputs of the user (edits and border picks)
MaxEdits == 3

----------------------------------------------------------------------------
(* OffscreenExporter: program constants *)

\* useState(2400), and the literal in the stability test
PlaceholderPx == 2400
\* stableCountRef.current >= 3
StableThreshold == 3
\* three nested requestAnimationFrame callbacks
FrameCount == 3

Px(n) == n * Sub
Placeholder == Px(PlaceholderPx)
Abs(x) == IF x < 0 THEN -x ELSE x

\* the heights PageCanvas may report through onMeasured={setH}
Heights == {Placeholder, Placeholder - 1, Px(800), Px(800) + 1, Px(801), Px(900)}

VARIABLES
  mounted,         \* root.render(<OffscreenExporter/>) committed, not yet unmounted
  h,               \* const [h, setH] = useState(2400)
  prevHRef,        \* prevHRef.current
  stableCountRef,  \* stableCountRef.current
  hasExportedRef,  \* hasExportedRef.current
  timeoutPending,  \* the 5000 ms setTimeout of the last effect run is armed
  raf,             \* 0: no frame callback queued; k: the k-th nested callback is queued
  cleanup,         \* what the last effect run returned: "none" | "raf" | "timeout"
  doneCalls,       \* number of onDone invocations
  resolved,        \* the promise of renderPageToDataURL has resolved
  dataUrl,         \* the value it resolved with ("" is the empty result)
  rasterH,         \* Stage height at the toDataURL call (-1 before)
  hist,            \* the heights handed to setH so far, in order
  ticks            \* animation-frame callbacks run since the export was started

driverVars == <<mounted, h, prevHRef, stableCountRef, hasExportedRef, timeoutPending,
                raf, cleanup, doneCalls, resolved, dataUrl, rasterH, hist, ticks>>

----------------------------------------------------------------------------
(* OffscreenExporter *)

\* Math.abs(prevHRef.current - h) < 1
DeltaUnderOnePx(prev, hh) == Abs(prev - hh) < Sub

\* (mutant) the placeholder test of the stability condition is dropped
StableEnough_NoPlaceholderTest(cnt, hh) == cnt >= StableThreshold

\* stableCountRef.current >= 3 && h !== 2400
StableEnough(cnt, hh) == cnt >= StableThreshold /\ hh # Placeholder

\* React runs the previous effect's cleanup before the effect runs again and
\* on unmount: cancelAnimationFrame(id1) only cancels the first callback.
RafAfterCleanup == IF cleanup = "raf" /\ raf = 1 THEN 0 ELSE raf
TimeoutAfterCleanup == IF cleanup = "timeout" THEN FALSE ELSE timeoutPending

\* the body of useEffect(..., [h, pixelRatio, onDone]) run with height hh,
\* after the cleanup of the previous run
Effect(hh) ==
  IF hasExportedRef
  THEN /\ UNCHANGED <<prevHRef, stableCountRef, hasExportedRef>>
       /\ raf' = RafAfterCleanup
       /\ timeoutPending' = TimeoutAfterCleanup
       /\ cleanup' = "none"
  ELSE IF ~DeltaUnderOnePx(prevHRef, hh)
  THEN /\ stableCountRef' = 0
       /\ prevHRef' = hh
       /\ UNCHANGED hasExportedRef
       /\ raf' = RafAfterCleanup
       /\ timeoutPending' = TimeoutAfterCleanup
       /\ cleanup' = "none"
  ELSE /\ stableCountRef' = stableCountRef + 1
       /\ UNCHANGED prevHRef
       /\ IF StableEnough(stableCountRef + 1, hh)
          THEN /\ hasExportedRef' = TRUE
               /\ raf' = 1
               /\ timeoutPending' = TimeoutAfterCleanup
               /\ cleanup' = "raf"
          ELSE /\ UNCHANGED hasExportedRef
               /\ raf' = RafAfterCleanup
               /\ timeoutPending' = TRUE
               /\ cleanup' = "timeout"

\* root.render(...): first commit, the effect runs with h = 2400
Mount ==
  /\ ~mounted /\ ~resolved
  /\ mounted' = TRUE
  /\ Effect(h)
  /\ UNCHANGED <<h, doneCalls, resolved, dataUrl, rasterH, hist, ticks>>

\* PageCanvas calls onMeasured(v), i.e. setH(v). React bails out when v is the
\* current state; otherwise it re-renders and re-runs the effect (deps [h, ...]).
Report(v) ==
  /\ mounted
  /\ Len(hist) < MaxReports
  /\ hist' = Append(hist, v)
  /\ IF v = h
     THEN UNCHANGED <<h, prevHRef, stableCountRef, hasExportedRef, timeoutPending,
                      raf, cleanup>>
     ELSE h' = v /\ Effect(v)
  /\ UNCHANGED <<mounted, doneCalls, resolved, dataUrl, rasterH, ticks>>

\* onDone(dataUrl) = handleDone: resolve, then .finally unmounts the root,
\* which runs the last cleanup
Resolve(url) ==
  /\ doneCalls' = doneCalls + 1
  /\ resolved' = TRUE
  /\ dataUrl' = IF resolved THEN dataUrl ELSE url
  /\ rasterH' = h
  /\ mounted' = FALSE
  /\ cleanup' = "none"

\* (mutant) the third callback leaves itself queued and runs again
FrameTick_Requeue(url) ==
  /\ raf > 0
  /\ ticks' = ticks + 1
  /\ IF raf < FrameCount
     THEN /\ raf' = raf + 1
          /\ UNCHANGED <<mounted, cleanup, doneCalls, resolved, dataUrl, rasterH>>
     ELSE /\ raf' = raf
          /\ Resolve(url)
  /\ timeoutPending' = IF raf < FrameCount THEN timeoutPending ELSE TimeoutAfterCleanup
  /\ UNCHANGED <<h, prevHRef, stableCountRef, hasExportedRef, hist>>

\* the browser runs the queued animation-frame callback; the third one calls
\* stageRef.current?.toDataURL(...) || '' (or catches and passes '')
FrameTick(url) ==
  /\ raf > 0
  /\ ticks' = ticks + 1
  /\ IF raf < FrameCount
     THEN /\ raf' = raf + 1
          /\ UNCHANGED <<mounted, cleanup, doneCalls, resolved, dataUrl, rasterH>>
     ELSE /\ raf' = 0
          /\ Resolve(url)
  /\ timeoutPending' = IF raf < FrameCount THEN timeoutPending ELSE TimeoutAfterCleanup
  /\ UNCHANGED <<h, prevHRef, stableCountRef, hasExportedRef, hist>>

\* the 5000 ms timer of the last effect run fires
TimeoutFires(url) ==
  /\ timeoutPending
  /\ timeoutPending' = FALSE
  /\ IF ~hasExportedRef
     THEN /\ hasExportedRef' = TRUE
          /\ Resolve(url)
          /\ raf' = RafAfterCleanup
     ELSE UNCHANGED <<hasExportedRef, mounted, cleanup, doneCalls, resolved, dataUrl,
                      rasterH, raf>>
  /\ UNCHANGED <<h, prevHRef, stableCountRef, hist, ticks>>

DataUrls == {"png", ""}

DriverInit ==
  /\ mounted = FALSE
  /\ h = Placeholder
  /\ prevHRef = Placeholder
  /\ stableCountRef = 0
  /\ hasExportedRef = FALSE
  /\ timeoutPending = FALSE
  /\ raf = 0
  /\ cleanup = "none"
  /\ doneCalls = 0
  /\ resolved = FALSE
  /\ dataUrl = ""
  /\ rasterH = -1
  /\ hist = <<>>
  /\ ticks = 0

----------------------------------------------------------------------------
(* PreviewPage.onExport and exportPagesToPng *)

\* the documents exported: allSheets as the page count of each sheet, in
\* Map insertion order (the export button is disabled for an empty map)
SheetSets == {<<3, 2>>, <<0, 1>>, <<1>>}

\* progress.current of a 'zip' event, and <<current, total>> of a 'write' event
ZipValues == {40, 100}
WriteValues == {<<1, 2>>, <<5, 0>>}

VARIABLES
  allSheets,     \* page count of each sheet, in insertion order
  loading,       \* const [loading, setLoading]
  exportPhase,   \* const [exportPhase, setExportPhase]; "null" is null
  renderCurr,    \* const [renderCurr, setRenderCurr]
  renderTotal,   \* const [renderTotal, setRenderTotal]
  zipPercent,    \* const [zipPercent, setZipPercent]
  writePercent,  \* const [writePercent, setWritePercent]
  pc,            \* where onExport is suspended: "idle" | "render" | "save"
  sheetIdx,      \* the sheet of the for-of loop of onExport (1-based)
  pageIdx,       \* i of the loop of exportPagesToPng: the page being rendered
  currentPage,   \* let currentPage of onExport
  items,         \* out of exportPagesToPng for the current sheet
  allExports,    \* allExports of onExport: the items of each finished sheet
  timers,        \* pending 1500 ms reset timers, oldest first, each tagged with its run
  run,           \* number of onExport invocations so far
  alerts,        \* alert() calls made by the current run
  outcome,       \* how the current run ended: "none" | "running" | "ok" |
                 \*   "renderError" | "saveError" | "notOk"
  saveCalled,    \* the current run has invoked savePngsMultiSheet
  events         \* progress events the packaging collaborator emitted in this run

exportVars == <<allSheets, loading, exportPhase, renderCurr, renderTotal, zipPercent,
                writePercent, pc, sheetIdx, pageIdx, currentPage, items, allExports,
                timers, run, alerts, outcome, saveCalled, events>>

RECURSIVE SumPages(_)
\* Array.from(allSheets.values()).reduce((sum, sheet) => sum + (sheet.pages?.length || 0), 0)
SumPages(sheets) ==
  IF sheets = <<>> THEN 0 ELSE Head(sheets) + SumPages(Tail(sheets))

\* the first sheet at or after k for which exportPagesToPng has a page to
\* render; Len(allSheets) + 1 when there is none
NextSheetWithPages(k) ==
  IF \E j \in k..Len(allSheets) : allSheets[j] > 0
  THEN CHOOSE j \in k..Len(allSheets) :
         allSheets[j] > 0 /\ \A m \in k..(j - 1) : allSheets[m] = 0
  ELSE Len(allSheets) + 1

\* the for-of loop of onExport resumed at sheet k with the sheets before k
\* exported: a sheet without pages yields [] at once; after the last sheet
\* setExportPhase('zip'), setZipPercent(0) and savePngsMultiSheet is called
ContinueLoop(k, exps, cur, ph, zp) ==
  LET j == NextSheetWithPages(k)
      exps2 == exps \o [x \in 1..(j - k) |-> <<>>]
  IN  /\ allExports' = exps2
      /\ currentPage' = cur
      /\ items' = <<>>
      /\ IF j <= Len(allSheets)
         THEN /\ pc' = "render"
              /\ sheetIdx' = j
              /\ pageIdx' = 0
              /\ exportPhase' = ph
              /\ zipPercent' = zp
              /\ UNCHANGED saveCalled
         ELSE /\ pc' = "save"
              /\ sheetIdx' = j
              /\ pageIdx' = 0
              /\ exportPhase' = "zip"
              /\ zipPercent' = 0
              /\ saveCalled' = TRUE

\* onExport up to its first suspension (the button is enabled when
\* !loading && allSheets.size > 0)
StartExport ==
  /\ ~loading /\ pc = "idle"
  /\ Len(allSheets) > 0
  /\ run < MaxRuns
  /\ run' = run + 1
  /\ loading' = TRUE
  /\ renderCurr' = 0
  /\ writePercent' = 0
  /\ renderTotal' = SumPages(allSheets)
  /\ alerts' = 0 /\ outcome' = "running" /\ events' = 0
  /\ saveCalled' = FALSE
  /\ ContinueLoop(1, <<>>, 0, "render", 0)
  /\ UNCHANGED <<allSheets, timers>>

\* renderPageToDataURL resolves with url: out.push, onProgress({phase:
\* 'render', current: i + 1}) -> setRenderCurr(currentPage + progress.current)
PageResolved(url) ==
  /\ pc = "render"
  /\ renderCurr' = currentPage + (pageIdx + 1)
  /\ LET out == Append(items, [name |-> pageIdx + 1, dataUrl |-> url])
     IN  IF pageIdx + 1 < allSheets[sheetIdx]
         THEN /\ items' = out
              /\ pageIdx' = pageIdx + 1
              /\ UNCHANGED <<pc, sheetIdx, currentPage, allExports, exportPhase,
                             zipPercent, saveCalled>>
         ELSE ContinueLoop(sheetIdx + 1, Append(allExports, out),
                           currentPage + allSheets[sheetIdx], exportPhase, zipPercent)
  /\ UNCHANGED <<allSheets, loading, renderTotal, writePercent, timers, run, alerts,
                 outcome, events>>

\* finally { setLoading(false); setTimeout(reset, 1500) }
Finally ==
  /\ loading' = FALSE
  /\ timers' = Append(timers, run)
  /\ pc' = "idle"

\* (mutant) the catch block swallows the error without alert()
CatchAndFinally_NoAlert(how) ==
  /\ UNCHANGED alerts
  /\ outcome' = how
  /\ Finally

\* catch (e) { alert(...) } finally { ... }
CatchAndFinally(how) ==
  /\ alerts' = alerts + 1
  /\ outcome' = how
  /\ Finally

\* an error is thrown while a page is rendered
RenderThrows ==
  /\ pc = "render"
  /\ CatchAndFinally("renderError")
  /\ UNCHANGED <<allSheets, exportPhase, renderCurr, renderTotal, zipPercent,
                 writePercent, sheetIdx, pageIdx, currentPage, items, allExports, run,
                 saveCalled, events>>

\* Math.max(0, Math.min(100, Math.round((current / Math.max(total, 1)) * 100)))
WritePct(current, total) ==
  LET t == IF total > 1 THEN total ELSE 1
      r == (200 * current + t) \div (2 * t)
      m == IF r < 100 THEN r ELSE 100
  IN  IF m > 0 THEN m ELSE 0

\* the progress callback handed to savePngsMultiSheet
OnSaveProgress(phase, current, total) ==
  /\ pc = "save"
  /\ events < MaxEvents
  /\ events' = events + 1
  /\ IF phase = "zip"
     THEN zipPercent' = current /\ UNCHANGED <<exportPhase, writePercent>>
     ELSE IF phase = "write"
     THEN /\ exportPhase' = "write"
          /\ writePercent' = WritePct(current, total)
          /\ UNCHANGED zipPercent
     ELSE IF phase = "done"
     THEN exportPhase' = "done" /\ UNCHANGED <<zipPercent, writePercent>>
     ELSE UNCHANGED <<exportPhase, zipPercent, writePercent>>
  /\ UNCHANGED <<allSheets, loading, renderCurr, renderTotal, pc, sheetIdx, pageIdx,
                 currentPage, items, allExports, timers, run, alerts, outcome,
                 saveCalled>>

\* savePngsMultiSheet resolves: if (!res?.ok) throw new Error(...)
SaveReturns(ok) ==
  /\ pc = "save"
  /\ IF ok
     THEN /\ outcome' = "ok"
          /\ Finally
          /\ UNCHANGED alerts
     ELSE CatchAndFinally("notOk")
  /\ UNCHANGED <<allSheets, exportPhase, renderCurr, renderTotal, zipPercent,
                 writePercent, sheetIdx, pageIdx, currentPage, items, allExports, run,
                 saveCalled, events>>

\* savePngsMultiSheet rejects
SaveThrows ==
  /\ pc = "save"
  /\ CatchAndFinally("saveError")
  /\ UNCHANGED <<allSheets, exportPhase, renderCurr, renderTotal, zipPercent,
                 writePercent, sheetIdx, pageIdx, currentPage, items, allExports, run,
                 saveCalled, events>>

\* the oldest 1500 ms timer set by a finally block fires
ResetTimerFires ==
  /\ timers # <<>>
  /\ timers' = Tail(timers)
  /\ exportPhase' = "null"
  /\ renderCurr' = 0
  /\ renderTotal' = 0
  /\ zipPercent' = 0
  /\ writePercent' = 0
  /\ UNCHANGED <<allSheets, loading, pc, sheetIdx, pageIdx, currentPage, items,
                 allExports, run, alerts, outcome, saveCalled, events>>

ExportInitWith(sheetSets) ==
  /\ allSheets \in sheetSets
  /\ loading = FALSE
  /\ exportPhase = "null"
  /\ renderCurr = 0
  /\ renderTotal = 0
  /\ zipPercent = 0
  /\ writePercent = 0
  /\ pc = "idle"
  /\ sheetIdx = 0
  /\ pageIdx = 0
  /\ currentPage = 0
  /\ items = <<>>
  /\ allExports = <<>>
  /\ timers = <<>>
  /\ run = 0
  /\ alerts = 0
  /\ outcome = "none"
  /\ saveCalled = FALSE
  /\ events = 0

----------------------------------------------------------------------------
(* PreviewPage: the style and its debounced update *)

Sides == {"t", "r", "b", "l"}

\* defaultStyle(), the fields the page edits
DefaultStyle ==
  [ pad |-> [t |-> 100, r |-> 48, b |-> 100, l |-> 48],
    titleColor |-> "#0f172a",
    contentColor |-> "#334155",
    border |-> [image |-> "", slice |-> [t |-> 100, r |-> 66, b |-> 100, l |-> 66]] ]

\* what the user types or picks
PadInputs == {10, 20}
SliceInputs == {30}
ColorInputs == {"#ff0000"}
BorderFiles == {"data:image/png;base64,A"}

VARIABLES
  style,             \* const [style, setStyle] as of the last render
  pendingStyle,      \* pendingStyle.current: a partial StyleCfg
  debounceTimerRef,  \* debounceTimerRef.current != null: the 500 ms timer is armed
  fiberLanes,        \* PreviewPage has an update scheduled that is not rendered yet
  queue,             \* setStyle updaters waiting for that render, oldest first
  edits,             \* number of style inputs of the user so far
  written,           \* the last value written to each field in the current burst
  applied            \* style mutations applied by flushes of the current burst

styleVars == <<style, pendingStyle, debounceTimerRef, fiberLanes, queue, edits,
               written, applied>>

\* { ...a, ...b } on objects given as functions on their keys
Spread(a, b) ==
  [k \in DOMAIN a \cup DOMAIN b |-> IF k \in DOMAIN b THEN b[k] ELSE a[k]]

EmptyObject == [k \in {} |-> 0]

\* the value a style holds at a field path such as <<"pad", "t">>
FieldOf(st, path) ==
  CASE path[1] = "pad" -> st.pad[path[2]]
    [] path[1] = "slice" -> st.border.slice[path[2]]
    [] path[1] = "titleColor" -> st.titleColor
    [] path[1] = "contentColor" -> st.contentColor

\* s => ({ ...s, ...pendingStyle.current }), run when React evaluates it
FlushUpdater(st, pending) == Spread(st, pending)

\* s => ({ ...s, border: { ...s.border, image: d } })
ImageUpdater(st, d) == [st EXCEPT !.border = [st.border EXCEPT !.image = d]]

\* setStyleDebounced(partial), called by the input at `path` with value v:
\* the pending patch is merged shallowly and the timer restarted
SetStyleDebounced(partial, path, v) ==
  /\ edits < MaxEdits
  /\ edits' = edits + 1
  /\ pendingStyle' = Spread(pendingStyle, partial)
  /\ debounceTimerRef' = TRUE
  /\ written' = IF debounceTimerRef
                THEN Spread(written, [p \in {path} |-> v])
                ELSE [p \in {path} |-> v]
  /\ applied' = IF debounceTimerRef THEN applied ELSE 0
  /\ UNCHANGED <<style, fiberLanes, queue>>

\* onValueChange of a padding input:
\* setStyleDebounced({ pad: { ...style.pad, [side]: Number(v || 0) } })
EditPad(side, v) ==
  SetStyleDebounced([pad |-> [style.pad EXCEPT ![side] = v]], <<"pad", side>>, v)

\* onValueChange of a slice input: setStyleDebounced({ border: {
\*   ...style.border, slice: { ...style.border.slice, [side]: Number(v || 0) } } })
EditSlice(side, v) ==
  SetStyleDebounced(
    [border |-> [style.border EXCEPT !.slice = [style.border.slice EXCEPT ![side] = v]]],
    <<"slice", side>>, v)

\* onValueChange / onChange of a colour input (a valid #rrggbb value)
EditColor(field, c) ==
  SetStyleDebounced([k \in {field} |-> c], <<field>>, c)

\* the 500 ms timer fires. React evaluates the updater at once when the
\* component has no update scheduled, and otherwise at the next render,
\* after pendingStyle.current = {} has run.
FlushTimer ==
  /\ debounceTimerRef
  /\ debounceTimerRef' = FALSE
  /\ IF DOMAIN pendingStyle # {}
     THEN /\ pendingStyle' = EmptyObject
          /\ IF fiberLanes
             THEN /\ queue' = Append(queue, [kind |-> "flush", image |-> ""])
                  /\ UNCHANGED <<style, applied>>
             ELSE /\ style' = FlushUpdater(style, pendingStyle)
                  /\ applied' = applied + 1
                  /\ UNCHANGED queue
     ELSE UNCHANGED <<pendingStyle, style, applied, queue>>
  /\ UNCHANGED <<fiberLanes, edits, written>>

\* onPickBorder, after the file was read: setStyle(s => ({ ...s, border: ... }))
PickBorder(d) ==
  /\ edits < MaxEdits
  /\ edits' = edits + 1
  /\ IF fiberLanes
     THEN queue' = Append(queue, [kind |-> "image", image |-> d]) /\ UNCHANGED style
     ELSE style' = ImageUpdater(style, d) /\ UNCHANGED queue
  /\ UNCHANGED <<pendingStyle, debounceTimerRef, fiberLanes, written, applied>>

\* another state of PreviewPage is set (setZoomPct, setHeights, ...): a
\* render is scheduled
OtherUpdate ==
  /\ ~fiberLanes
  /\ fiberLanes' = TRUE
  /\ UNCHANGED <<style, pendingStyle, debounceTimerRef, queue, edits, written, applied>>

RECURSIVE RunUpdaters(_, _, _)
RunUpdaters(st, q, pending) ==
  IF q = <<>> THEN st
  ELSE RunUpdaters(IF Head(q).kind = "flush"
                   THEN FlushUpdater(st, pending)
                   ELSE ImageUpdater(st, Head(q).image),
                   Tail(q), pending)

\* React renders PreviewPage: the queued updaters run in order
Render ==
  /\ fiberLanes
  /\ fiberLanes' = FALSE
  /\ style' = RunUpdaters(style, queue, pendingStyle)
  /\ queue' = <<>>
  /\ applied' = applied + Cardinality({i \in 1..Len(queue) : queue[i].kind = "flush"})
  /\ UNCHANGED <<pendingStyle, debounceTimerRef, edits, written>>

StyleInit ==
  /\ style = DefaultStyle
  /\ pendingStyle = EmptyObject
  /\ debounceTimerRef = FALSE
  /\ fiberLanes = FALSE
  /\ queue = <<>>
  /\ edits = 0
  /\ written = EmptyObject
  /\ applied = 0

----------------------------------------------------------------------------
(* PreviewPage: loading a data file, switching sheets, the height cache *)

\* a page, as far as the preview reads it: its region label and the summed
\* height of its sections (innerH of PageCanvas)
Pg(region, innerH) == [region |-> region, innerH |-> innerH]

\* responses of the parse service with payload.ok: Object.keys(payload.sheets)
\* in order, and the Data of each sheet after rewriteImages
Payloads ==
  { [names |-> <<"A", "B", "C">>,
     sheets |-> [n \in {"A", "B", "C"} |->
                  CASE n = "A" -> [pages |-> <<Pg("1", 600), Pg("2", 900)>>]
                    [] n = "B" -> [pages |-> <<Pg("3", 600), Pg("4", 700)>>]
                    [] n = "C" -> [pages |-> <<Pg("5", 900)>>]]],
    [names |-> <<"D">>,
     sheets |-> [n \in {"D"} |-> [pages |-> <<Pg("6", 600)>>]]],
    [names |-> <<>>, sheets |-> [n \in {} |-> 0]] }

\* documents a .json file parses to
JsonDocuments == {[pages |-> <<Pg("7", 500)>>]}

\* why the request to /api/parse is rejected: !res.ok, or !payload.ok
ParseErrors == {"bad status", "parse failed"}

VARIABLES
  allSheetsMap,  \* const [allSheets, setAllSheets]: the Map from sheet name to Data
  sheetNames,    \* const [sheetNames, setSheetNames]
  currentSheet,  \* const [currentSheet, setCurrentSheet]
  data,          \* const [data, setData]
  error,         \* const [error, setError]; "null" is null
  heights,       \* const [heights, setHeights]; 0 stands for an empty slot
  loadPc,        \* where a load is suspended: "idle" | "json" | "xlsx"
  lastH          \* per mounted PageCanvas, the H its effect last ran with

docVars == <<allSheetsMap, sheetNames, currentSheet, data, error, heights, loadPc, lastH>>

\* the export state other than allSheets and loading
exportRest == <<exportPhase, renderCurr, renderTotal, zipPercent, writePercent, pc,
                sheetIdx, pageIdx, currentPage, items, allExports, timers, run,
                alerts, outcome, saveCalled, events>>

\* the page counts of a Map of sheets, in insertion order
PageCounts(names, sheets) == [i \in 1..Len(names) |-> Len(sheets[names[i]].pages)]

\* H of PageCanvas: PAD.t + innerH + PAD.b
PageH(page, st) == st.pad.t + page.innerH + st.pad.b

\* the height the Stage of page i is given:
\* (heights[i] && isFinite(heights[i])) ? heights[i] : 1000
StageHeight(i) == IF i <= Len(heights) /\ heights[i] # 0 THEN heights[i] ELSE 1000

\* the updater of onMeasuredByIndex(idx)(hh) applied to arr
Measured(arr, idx, hh) ==
  IF hh <= 0 THEN arr
  ELSE IF idx <= Len(arr) /\ arr[idx] = hh THEN arr
  ELSE [i \in 1..(IF idx > Len(arr) THEN idx ELSE Len(arr)) |->
          IF i = idx THEN hh ELSE IF i <= Len(arr) THEN arr[i] ELSE 0]

\* the updater of the effect on data.pages.length applied to prev
InitHeights(prev, len) ==
  [i \in 1..len |-> IF i <= Len(prev) /\ prev[i] # 0 THEN prev[i] ELSE 1000]

\* PageCanvas i has to run its effect: it was mounted by the last render, or
\* its H differs from the one its effect last saw
EffectDue(i) ==
  IF i > Len(lastH) THEN TRUE ELSE PageH(data.pages[i], style) # lastH[i]

\* the last render left effects to run: a PageCanvas effect, or the effect
\* on data.pages.length
EffectsPending ==
  \/ Len(data.pages) # Len(lastH)
  \/ \E i \in 1..Len(data.pages) : EffectDue(i)

RECURSIVE ChildEffects(_, _)
\* the effects of the PageCanvas components i, i+1, ... run in order, each
\* calling onMeasured with its H
ChildEffects(arr, i) ==
  IF i > Len(data.pages) THEN arr
  ELSE ChildEffects(IF EffectDue(i)
                    THEN Measured(arr, i, PageH(data.pages[i], style))
                    ELSE arr,
                    i + 1)

\* React runs the effects of the last render, children first
RunEffects ==
  /\ EffectsPending
  /\ heights' = IF Len(data.pages) # Len(lastH)
                THEN InitHeights(ChildEffects(heights, 1), Len(data.pages))
                ELSE ChildEffects(heights, 1)
  /\ lastH' = [i \in 1..Len(data.pages) |-> PageH(data.pages[i], style)]
  /\ UNCHANGED <<allSheetsMap, sheetNames, currentSheet, data, error, loadPc>>
  /\ UNCHANGED <<allSheets, loading, exportRest>>

\* onPickDataFile with a .json file: onPickJson up to await file.text()
PickJson ==
  /\ loadPc = "idle" /\ ~EffectsPending
  /\ loading' = TRUE
  /\ error' = "null"
  /\ loadPc' = "json"
  /\ UNCHANGED <<allSheetsMap, sheetNames, currentSheet, data, heights, lastH>>
  /\ UNCHANGED <<allSheets, exportRest>>

\* onPickJson resumed: JSON.parse returned json
JsonParsed(json) ==
  /\ loadPc = "json" /\ ~EffectsPending
  /\ data' = json
  /\ loading' = FALSE
  /\ loadPc' = "idle"
  /\ UNCHANGED <<allSheetsMap, sheetNames, currentSheet, error, heights, lastH>>
  /\ UNCHANGED <<allSheets, exportRest>>

\* onPickJson resumed: file.text() or JSON.parse threw e
JsonThrows ==
  /\ loadPc = "json" /\ ~EffectsPending
  /\ error' = "SyntaxError"
  /\ loading' = FALSE
  /\ loadPc' = "idle"
  /\ UNCHANGED <<allSheetsMap, sheetNames, currentSheet, data, heights, lastH>>
  /\ UNCHANGED <<allSheets, exportRest>>

\* onPickDataFile with an .xlsx file: onPickXlsx up to await fetch(...)
PickXlsx ==
  /\ loadPc = "idle" /\ ~EffectsPending
  /\ loading' = TRUE
  /\ error' = "null"
  /\ loadPc' = "xlsx"
  /\ UNCHANGED <<allSheetsMap, sheetNames, currentSheet, data, heights, lastH>>
  /\ UNCHANGED <<allSheets, exportRest>>

\* onPickXlsx resumed with a payload that has ok set
XlsxParsed(payload) ==
  /\ loadPc = "xlsx" /\ ~EffectsPending
  /\ allSheetsMap' = payload.sheets
  /\ allSheets' = PageCounts(payload.names, payload.sheets)
  /\ sheetNames' = payload.names
  /\ IF Len(payload.names) > 0
     THEN /\ currentSheet' = payload.names[1]
          /\ data' = payload.sheets[payload.names[1]]
          /\ UNCHANGED error
     ELSE /\ error' = "no valid sheet"
          /\ UNCHANGED <<currentSheet, data>>
  /\ loading' = FALSE
  /\ loadPc' = "idle"
  /\ UNCHANGED <<heights, lastH, exportRest>>

\* onPickXlsx resumed: fetch threw, !res.ok, or !payload.ok
XlsxThrows(msg) ==
  /\ loadPc = "xlsx" /\ ~EffectsPending
  /\ error' = msg
  /\ loading' = FALSE
  /\ loadPc' = "idle"
  /\ UNCHANGED <<allSheetsMap, sheetNames, currentSheet, data, heights, lastH>>
  /\ UNCHANGED <<allSheets, exportRest>>

\* onPickDataFile with a file that is neither .json nor .xlsx
PickUnsupported ==
  /\ ~EffectsPending
  /\ error' = "only JSON or XLSX"
  /\ UNCHANGED <<allSheetsMap, sheetNames, currentSheet, data, heights, loadPc, lastH>>
  /\ UNCHANGED <<allSheets, loading, exportRest>>

\* onSheetChange(sheetName), called by the tabs, which are rendered when
\* sheetNames.length > 1, with the key of a tab that is not selected
OnSheetChange(sheetName) ==
  /\ ~EffectsPending
  /\ Len(sheetNames) > 1
  /\ \E i \in 1..Len(sheetNames) : sheetNames[i] = sheetName
  /\ sheetName # currentSheet
  /\ currentSheet' = sheetName
  /\ data' = allSheetsMap[sheetName]
  /\ heights' = <<>>
  /\ UNCHANGED <<allSheetsMap, sheetNames, error, loadPc, lastH>>
  /\ UNCHANGED <<allSheets, loading, exportRest>>

\* the page after its first measured render of a document with the page
\* counts allSheets: the sheets are named A, B, ... and hold pages 800 high
DocInit ==
  LET names == [i \in 1..Len(allSheets) |-> <<"A", "B", "C">>[i]]
      sheetOf(n) == [pages |-> [p \in 1..n |-> Pg("1", 800)]]
      first == IF allSheets = <<>> THEN [pages |-> <<>>] ELSE sheetOf(allSheets[1])
  IN  /\ sheetNames = names
      /\ allSheetsMap = [n \in {names[i] : i \in 1..Len(names)} |->
                          sheetOf(allSheets[CHOOSE i \in 1..Len(names) : names[i] = n])]
      /\ currentSheet = IF names = <<>> THEN "" ELSE names[1]
      /\ data = first
      /\ error = "null"
      /\ heights = [i \in 1..Len(first.pages) |-> PageH(first.pages[i], DefaultStyle)]
      /\ loadPc = "idle"
      /\ lastH = [i \in 1..Len(first.pages) |-> PageH(first.pages[i], DefaultStyle)]

----------------------------------------------------------------------------
(* measurePlainTextHeight *)

\* longest text measured
MaxTextLen == 3

\* characters: a narrow one, a wide one and the newline
Chars == {"a", "W", "\n"}
Texts == UNION {[1..n -> Chars] : n \in 0..MaxTextLen}
Widths == {-1, 0, 10, 21}
FontSizes == {-2, 0, 14, 15}
\* lineHeight in quarters (1, 1.25 and 1.5, all exact in binary floating point)
LineHeights == {-4, 0, 4, 5, 6}

\* the arguments of a call; canvas: getCanvasContext() returns a context
TextArgs ==
  [text : Texts, width : Widths, fontSize : FontSizes, lineHeight : LineHeights,
   canvas : BOOLEAN]

VARIABLES
  textArgs,    \* the arguments measurePlainTextHeight is called with
  textResult   \* its return value, -1 before it returns

textVars == <<textArgs, textResult>>

\* ctx.measureText(char).width in half pixels, for the font `${fontSize}px ...`:
\* a wide character is as wide as the font size, a narrow one half of it
measureTextWidth(char, fontSize) == IF char = "W" THEN 2 * fontSize ELSE fontSize

\* Math.ceil of n quarters
Ceil(n) == -((-n) \div 4)

RECURSIVE Split(_, _)
\* text.split('\n'), with cur the paragraph being read
Split(text, cur) ==
  IF text = <<>> THEN <<cur>>
  ELSE IF Head(text) = "\n" THEN <<cur>> \o Split(Tail(text), <<>>)
  ELSE Split(Tail(text), Append(cur, Head(text)))

\* one turn of the while loop: st holds lineCount and currentLineWidth
WrapStep_KeepWidth(st, charWidth, width) ==
  IF st.currentLineWidth + charWidth > 2 * width
  THEN [lineCount |-> st.lineCount + 1, currentLineWidth |-> st.currentLineWidth + charWidth]
  ELSE [lineCount |-> st.lineCount, currentLineWidth |-> st.currentLineWidth + charWidth]

WrapStep(st, charWidth, width) ==
  IF st.currentLineWidth + charWidth > 2 * width
  THEN [lineCount |-> st.lineCount + 1, currentLineWidth |-> charWidth]
  ELSE [lineCount |-> st.lineCount, currentLineWidth |-> st.currentLineWidth + charWidth]

RECURSIVE WrapFrom(_, _, _, _)
\* the while loop over the characters of a paragraph
WrapFrom(paragraph, st, width, fontSize) ==
  IF paragraph = <<>> THEN st.lineCount
  ELSE WrapFrom(Tail(paragraph),
                WrapStep(st, measureTextWidth(Head(paragraph), fontSize), width),
                width, fontSize)

RECURSIVE TotalLines(_, _, _)
\* the for loop over the paragraphs: an empty one counts one line
TotalLines(paragraphs, width, fontSize) ==
  IF paragraphs = <<>> THEN 0
  ELSE (IF Head(paragraphs) = <<>> THEN 1
        ELSE WrapFrom(Head(paragraphs), [lineCount |-> 1, currentLineWidth |-> 0],
                      width, fontSize))
       + TotalLines(Tail(paragraphs), width, fontSize)

\* the parameter check at the top of measurePlainTextHeight
InvalidArgs_NoTextTest(text, width, fontSize, lineHeight) ==
  width <= 0 \/ fontSize <= 0 \/ lineHeight <= 0

InvalidArgs(text, width, fontSize, lineHeight) ==
  text = <<>> \/ width <= 0 \/ fontSize <= 0 \/ lineHeight <= 0

\* measureTextWidth is called and throws: there is a character to measure
\* and no canvas context
MeasureThrows(text, canvas) == ~canvas /\ \E i \in 1..Len(text) : text[i] # "\n"

measurePlainTextHeight(text, width, fontSize, lineHeight, canvas) ==
  IF InvalidArgs(text, width, fontSize, lineHeight) THEN 0
  ELSE IF MeasureThrows(text, canvas) THEN 0
  ELSE LET totalLines == TotalLines(Split(text, <<>>), width, fontSize)
           result == Ceil(totalLines * fontSize * lineHeight)
       IN  IF result > 0 THEN result ELSE 0

\* a caller invokes measurePlainTextHeight and it returns
MeasureText ==
  /\ textResult = -1
  /\ textResult' = measurePlainTextHeight(textArgs.text, textArgs.width,
                     textArgs.fontSize, textArgs.lineHeight, textArgs.canvas)
  /\ UNCHANGED textArgs

TextInitWith(args) ==
  /\ textArgs \in args
  /\ textResult = -1

\* no text to measure
NoText == {[text |-> <<>>, width |-> 0, fontSize |-> 0, lineHeight |-> 0, canvas |-> TRUE]}

----------------------------------------------------------------------------
(* NineSlice *)

\* target sizes, bitmap sizes and insets drawn with
TargetSizes == {0, 3, 4}
BitmapSizes == {0, 3}
Insets == {-1, 0, 1}
\* const overlap of nineSlice.tsx, and 0 for the copy of the component
\* that draws without overlap
Overlaps == {0, 1}

SliceArgs ==
  [w : TargetSizes, h : TargetSizes, sw : BitmapSizes, sh : BitmapSizes,
   slice : [Sides -> Insets], overlap : Overlaps]

VARIABLES
  sliceArgs,  \* the props NineSlice is rendered with (bmp by its size)
  sliceOps,   \* the KImage elements it returned, <<>> for null
  sliceDone   \* NineSlice has returned

sliceVars == <<sliceArgs, sliceOps, sliceDone>>

Max(a, b) == IF a > b THEN a ELSE b

\* <KImage x y width height crop={{ x, y, width, height }} />
KImage(x, y, width, height, cx, cy, cw, ch) ==
  [x |-> x, y |-> y, width |-> width, height |-> height,
   crop |-> [x |-> cx, y |-> cy, width |-> cw, height |-> ch]]

\* isFinite(t) && t >= 0 ? t : 0
ClampInset(t) == IF t >= 0 THEN t ELSE 0

\* the children of the Group NineSlice returns, <<>> when it returns null
NineSlice(w, hh, sw, sh, slice, overlap) ==
  IF w <= 0 \/ hh <= 0 \/ sw <= 0 \/ sh <= 0 THEN <<>>
  ELSE
    LET sliceT == ClampInset(slice["t"])
        sliceR == ClampInset(slice["r"])
        sliceB == ClampInset(slice["b"])
        sliceL == ClampInset(slice["l"])
        cw == Max(0, sw - sliceL - sliceR)
        ch == Max(0, sh - sliceT - sliceB)
        mw == Max(0, w - sliceL - sliceR)
        mh == Max(0, hh - sliceT - sliceB)
    IN  << KImage(0, 0, sliceL + overlap, sliceT + overlap, 0, 0, sliceL, sliceT),
           KImage(w - sliceR - overlap, 0, sliceR + overlap, sliceT + overlap,
                  sw - sliceR, 0, sliceR, sliceT),
           KImage(0, hh - sliceB - overlap, sliceL + overlap, sliceB + overlap,
                  0, sh - sliceB, sliceL, sliceB),
           KImage(w - sliceR - overlap, hh - sliceB - overlap,
                  sliceR + overlap, sliceB + overlap,
                  sw - sliceR, sh - sliceB, sliceR, sliceB),
           KImage(sliceL - overlap, 0, mw + overlap * 2, sliceT + overlap,
                  sliceL, 0, cw, sliceT),
           KImage(sliceL - overlap, hh - sliceB - overlap, mw + overlap * 2,
                  sliceB + overlap, sliceL, sh - sliceB, cw, sliceB),
           KImage(0, sliceT - overlap, sliceL + overlap, mh + overlap * 2,
                  0, sliceT, sliceL, ch),
           KImage(w - sliceR - overlap, sliceT - overlap, sliceR + overlap,
                  mh + overlap * 2, sw - sliceR, sliceT, sliceR, ch),
           KImage(sliceL - overlap, sliceT - overlap, mw + overlap * 2,
                  mh + overlap * 2, sliceL, sliceT, cw, ch) >>

\* PageCanvas renders <NineSlice x={0} y={0} w={W} h={H} bmp slice />
RenderNineSlice ==
  /\ ~sliceDone
  /\ sliceDone' = TRUE
  /\ sliceOps' = NineSlice(sliceArgs.w, sliceArgs.h, sliceArgs.sw, sliceArgs.sh,
                           sliceArgs.slice, sliceArgs.overlap)
  /\ UNCHANGED sliceArgs

SliceInitWith(args) ==
  /\ sliceArgs \in args
  /\ sliceOps = <<>>
  /\ sliceDone = FALSE

\* no border bitmap loaded
NoSlice ==
  {[w |-> 0, h |-> 0, sw |-> 0, sh |-> 0, slice |-> [s \in Sides |-> 0], overlap |-> 1]}

----------------------------------------------------------------------------
(* TableComponent *)

\* most data rows of a table, and most changes of the text wrapping
MaxRows == 2
MaxReflows == 2

\* const cellPadding
cellPadding == 8
\* headers per table (colCount)
ColCount == 2

\* a cell by what its node measures: a text cell by the height of its Text
\* node, an image cell by the height its bitmap has at the full cell width
TextCell(hgt) == [is_image |-> FALSE, height |-> hgt]
ImageCell(hgt) == [is_image |-> TRUE, height |-> hgt]
Cells == {TextCell(20), TextCell(60), ImageCell(100)}
HeaderHeights == {20, 60}
TableFontSizes == {12, 24}

\* table.rows, one sequence of ColCount cells per row
TableRows == UNION {[1..n -> [1..ColCount -> Cells]] : n \in 0..MaxRows}

VARIABLES
  tableRows,      \* table.rows
  headerText,     \* the height of the Text node of each header
  tableFontSize,  \* the fontSize prop
  wrapFactor,     \* how many times taller the current width makes each Text node
  reflows,        \* number of changes of wrapFactor so far
  cellHeights,    \* const [cellHeights, setCellHeights]: key -> height
  loadedImages,   \* const [loadedImages, setLoadedImages], by its keys
  imagesPending,  \* loadImages() has not called setLoadedImages yet
  headerHeight,   \* headerHeight of the last render
  rowPositions,   \* rowPositions of the last render
  totalHeight,    \* totalHeight of the last render
  layoutDue,      \* the layout effects of the last render have not run yet
  totalDep,       \* the totalHeight the reporting effect last ran with, 0 before
  reported        \* the last height passed to onHeightMeasured, 0 before

tableVars == <<tableRows, headerText, tableFontSize, wrapFactor, reflows, cellHeights,
               loadedImages, imagesPending, headerHeight, rowPositions, totalHeight,
               layoutDue, totalDep, reported>>

\* the keys `${rowIdx}-${colIdx}` of a table with the rows rs, -1 the header
HeaderKeys == {<<-1, c>> : c \in 0..(ColCount - 1)}
CellKeys(rs) == {<<r, c>> : r \in 0..(Len(rs) - 1), c \in 0..(ColCount - 1)}
CellAt(rs, key) == rs[key[1] + 1][key[2] + 1]

\* getRowHeight(rowIdx) over the cell heights hs
getRowHeight_PadBeforeFloor(hs, rowIdx, fontSize) ==
  LET minRowHeight == fontSize * 2
      padded == {hs[k] + cellPadding * 2 : k \in {q \in DOMAIN hs : q[1] = rowIdx}}
  IN  IF \E m \in padded : m > minRowHeight
      THEN CHOOSE m \in padded : \A o \in padded : o <= m
      ELSE minRowHeight

getRowHeight(hs, rowIdx, fontSize) ==
  LET minRowHeight == fontSize * 2
      taller == {hs[k] : k \in {q \in DOMAIN hs : q[1] = rowIdx /\ hs[q] > minRowHeight}}
      maxHeight == IF taller = {} THEN minRowHeight
                   ELSE CHOOSE m \in taller : \A o \in taller : o <= m
  IN  maxHeight + cellPadding * 2

RECURSIVE PositionsFrom_NoAdvance(_, _, _, _, _)
PositionsFrom_NoAdvance(hs, rowIdx, rowCount, currentY, fontSize) ==
  IF rowIdx >= rowCount THEN <<>>
  ELSE <<[y |-> currentY, height |-> getRowHeight(hs, rowIdx, fontSize)]>>
       \o PositionsFrom_NoAdvance(hs, rowIdx + 1, rowCount,
            currentY + fontSize * 2 + cellPadding * 2, fontSize)

RECURSIVE PositionsLoop(_, _, _, _, _)
\* the for loop that pushes { y: currentY, height: rowH }, from row rowIdx on
PositionsLoop(hs, rowIdx, rowCount, currentY, fontSize) ==
  IF rowIdx >= rowCount THEN <<>>
  ELSE LET rowH == getRowHeight(hs, rowIdx, fontSize)
       IN  <<[y |-> currentY, height |-> rowH]>>
           \o PositionsLoop(hs, rowIdx + 1, rowCount, currentY + rowH, fontSize)

\* rowPositions of a render with the cell heights hs
PositionsFrom(hs, rowIdx, rowCount, currentY, fontSize) ==
  PositionsLoop(hs, rowIdx, rowCount, currentY, fontSize)

\* totalHeight: currentY after the loop
TotalAfter(positions, header) ==
  IF positions = <<>> THEN header
  ELSE positions[Len(positions)].y + positions[Len(positions)].height

\* a render of TableComponent with the cell heights hs
RenderTable(hs) ==
  LET header == getRowHeight(hs, -1, tableFontSize)
      positions == PositionsFrom(hs, 0, Len(tableRows), header, tableFontSize)
  IN  /\ headerHeight' = header
      /\ rowPositions' = positions
      /\ totalHeight' = TotalAfter(positions, header)
      /\ layoutDue' = TRUE

Min(a, b) == IF a < b THEN a ELSE b

\* node.height() of the node the last render mounted under key, 0 without node
NodeHeight(key) ==
  IF key[1] = -1 THEN headerText * wrapFactor
  ELSE IF CellAt(tableRows, key).is_image
       THEN IF key \in loadedImages
            THEN Min(CellAt(tableRows, key).height,
                     rowPositions[key[1] + 1].height - cellPadding * 2)
            ELSE 0
       ELSE CellAt(tableRows, key).height * wrapFactor

\* newHeights of the measuring effect
NewHeights ==
  [k \in {q \in HeaderKeys \cup CellKeys(tableRows) : NodeHeight(q) > 0} |-> NodeHeight(k)]

\* hasChanges of the measuring effect
HasChanges ==
  \E k \in DOMAIN NewHeights :
    IF k \in DOMAIN cellHeights THEN cellHeights[k] # NewHeights[k] ELSE TRUE

\* the layout effects of the last render: the measuring effect, then the
\* reporting effect; setCellHeights renders the component again
LayoutEffects ==
  /\ layoutDue
  /\ IF HasChanges
     THEN cellHeights' = NewHeights /\ RenderTable(NewHeights)
     ELSE /\ layoutDue' = FALSE
          /\ UNCHANGED <<cellHeights, headerHeight, rowPositions, totalHeight>>
  /\ totalDep' = totalHeight
  /\ reported' = IF totalHeight # totalDep /\ totalHeight > 0 THEN totalHeight ELSE reported
  /\ UNCHANGED <<tableRows, headerText, tableFontSize, wrapFactor, reflows,
                 loadedImages, imagesPending>>

\* loadImages() ends: setLoadedImages(newImages), with the images that
\* loadBitmap returned a bitmap for
ImagesLoaded(keys) ==
  /\ imagesPending /\ ~layoutDue
  /\ imagesPending' = FALSE
  /\ loadedImages' = keys
  /\ RenderTable(cellHeights)
  /\ UNCHANGED <<tableRows, headerText, tableFontSize, wrapFactor, reflows,
                 cellHeights, totalDep, reported>>

\* the parent renders the table with another width: every Text node wraps
\* into f times the lines
Reflow(f) ==
  /\ ~layoutDue
  /\ reflows < MaxReflows /\ f # wrapFactor
  /\ reflows' = reflows + 1
  /\ wrapFactor' = f
  /\ RenderTable(cellHeights)
  /\ UNCHANGED <<tableRows, headerText, tableFontSize, cellHeights, loadedImages,
                 imagesPending, totalDep, reported>>

\* the first render of a table: nothing measured, no image loaded
TableInitWith(rowSets, headers, fontSizes) ==
  /\ tableRows \in rowSets
  /\ headerText \in headers
  /\ tableFontSize \in fontSizes
  /\ wrapFactor = 1
  /\ reflows = 0
  /\ cellHeights = [k \in {} |-> 0]
  /\ loadedImages = {}
  /\ imagesPending = TRUE
  /\ headerHeight = getRowHeight([k \in {} |-> 0], -1, tableFontSize)
  /\ rowPositions = PositionsFrom([k \in {} |-> 0], 0, Len(tableRows),
                                  getRowHeight([k \in {} |-> 0], -1, tableFontSize),
                                  tableFontSize)
  /\ totalHeight = TotalAfter(rowPositions, headerHeight)
  /\ layoutDue = TRUE
  /\ totalDep = 0
  /\ reported = 0

TableIdle == TableInitWith({<<>>}, {20}, {24})

----------------------------------------------------------------------------
(* normalizePage *)

\* longest sections list of a page or block, and longest blocks list
MaxSections == 2
MaxBlocks == 2

\* an optional array field: missing (or undefined), or the array items
Undefined == [defined |-> FALSE, items |-> <<>>]
Defined(arr) == [defined |-> TRUE, items |-> arr]
Optional(arrays) == {Undefined} \cup {Defined(a) : a \in arrays}

\* a section, an object given as a function on its keys
PlainSection == [k \in {"title"} |-> "s"]
SectionLists == UNION {[1..n -> {PlainSection}] : n \in 0..MaxSections}

Blocks ==
  [block_type : {"rules", "rewards"}, block_title : {"b"},
   sections : Optional(SectionLists)]
BlockLists == UNION {[1..n -> Blocks] : n \in 0..MaxBlocks}

Pages == [region : {"1"}, sections : Optional(SectionLists), blocks : Optional(BlockLists)]

VARIABLES
  pageArg,        \* the page normalizePage is called with
  normalizedPage, \* what it returned
  normalizeDone   \* it has returned

pageVars == <<pageArg, normalizedPage, normalizeDone>>

\* { ...section, _blockType: block.block_type, _blockTitle: block.block_title }
TagSection(section, block) ==
  Spread(section, [k \in {"_blockType", "_blockTitle"} |->
                     IF k = "_blockType" THEN block.block_type ELSE block.block_title])

RECURSIVE FlattenBlocks(_)
\* the for loop over page.blocks that fills allSections
FlattenBlocks(blocks) ==
  IF blocks = <<>> THEN <<>>
  ELSE LET block == Head(blocks)
       IN  (IF block.sections.defined /\ Len(block.sections.items) > 0
            THEN [i \in 1..Len(block.sections.items) |->
                    TagSection(block.sections.items[i], block)]
            ELSE <<>>)
           \o FlattenBlocks(Tail(blocks))

\* page.blocks && page.blocks.length > 0
HasBlocks_NoLengthTest(page) == page.blocks.defined

HasBlocks(page) == page.blocks.defined /\ Len(page.blocks.items) > 0

normalizePage(page) ==
  IF HasBlocks(page)
  THEN [page EXCEPT !.sections = Defined(FlattenBlocks(page.blocks.items)),
                    !.blocks = Undefined]
  ELSE page

\* PageCanvas evaluates normalizePage(page); nothing is written to the page
NormalizePage ==
  /\ ~normalizeDone
  /\ normalizeDone' = TRUE
  /\ normalizedPage' = normalizePage(pageArg)
  /\ UNCHANGED pageArg

PageInitWith(pages) ==
  /\ pageArg \in pages
  /\ normalizedPage = pageArg
  /\ normalizeDone = FALSE

\* a page without content
NoPage == {[region |-> "1", sections |-> Defined(<<>>), blocks |-> Undefined]}

----------------------------------------------------------------------------
(* rewriteImages *)

\* longest image reference of a document, in characters
MaxUrlLen == 3

\* strings are sequences of characters; '' is the empty sequence
UrlChars == {"a", "b", "/", "?", "#"}
Urls == UNION {[1..n -> UrlChars] : n \in 0..MaxUrlLen}

\* r.image: missing, a string, or an object whose url is a string ('' when
\* the object has no url)
NoImage == [kind |-> "undefined", url |-> <<>>]
StringImage(s) == [kind |-> "string", url |-> s]
ImageRefs ==
  {NoImage} \cup {[kind |-> k, url |-> s] : k \in {"string", "object"}, s \in Urls}

\* the images of a parse response: filenames, and the data URIs they map
\* to ("d" stands for the scheme and media type of a data URI, whose
\* base64 payload may hold "/")
Filenames == {<<"a">>, <<"b">>}
DataUris == {<<>>, <<"d">>, <<"d", "/", "a">>, <<"d", "/", "b">>}
NoImages == [defined |-> FALSE, entries |-> [k \in {} |-> <<>>]]
ImageMaps ==
  {NoImages} \cup
  UNION {{[defined |-> TRUE, entries |-> f] : f \in [K -> DataUris]} : K \in SUBSET Filenames}

\* documents holding one reward with the image img, in the old and the new
\* structure, and documents with missing arrays
RewardList(img) == Defined(<<[name |-> "n", image |-> img]>>)
SectionList(img) == Defined(<<[title |-> "s", rewards |-> RewardList(img)]>>)
Documents ==
  UNION {{ [pages |-> Defined(<<[sections |-> SectionList(img), blocks |-> Undefined]>>)],
           [pages |-> Defined(<<[sections |-> Undefined,
                                 blocks |-> Defined(<<[block_type |-> "rewards",
                                                       sections |-> SectionList(img)]>>)]>>)]
         } : img \in ImageRefs}
  \cup { [pages |-> Undefined],
         [pages |-> Defined(<<[sections |-> Undefined, blocks |-> Defined(<<>>)]>>)],
         [pages |-> Defined(<<[sections |-> Defined(<<[title |-> "s", rewards |-> Undefined]>>),
                               blocks |-> Undefined]>>)] }

VARIABLES
  rewriteData,    \* the data of the first call of rewriteImages
  rewriteMap,     \* the images of both calls
  rewritten,      \* what the last call returned
  rewrittenOnce,  \* what the first call returned
  rewriteCalls    \* number of calls made, each on the result of the one before

rewriteVars == <<rewriteData, rewriteMap, rewritten, rewrittenOnce, rewriteCalls>>

RECURSIVE BeforeFirst(_, _)
\* s.split(c)[0]
BeforeFirst(s, c) ==
  IF s = <<>> THEN <<>>
  ELSE IF Head(s) = c THEN <<>>
  ELSE <<Head(s)>> \o BeforeFirst(Tail(s), c)

\* the last element of s.split(c)
AfterLast(s, c) ==
  LET at == {i \in 1..Len(s) : s[i] = c}
  IN  IF at = {} THEN s
      ELSE SubSeq(s, (CHOOSE i \in at : \A j \in at : j <= i) + 1, Len(s))

filenameOf(p) ==
  LET q == BeforeFirst(p, "?")
      hh == BeforeFirst(q, "#")
      last == AfterLast(hh, "/")
  IN  IF last # <<>> THEN last ELSE hh

\* the callback of (s.rewards || []).map: if (!r.image) return r; ...
\* return uri ? { ...r, image: uri } : r
RewriteReward(r, images) ==
  IF r.image.kind = "undefined" \/ r.image = StringImage(<<>>) THEN r
  ELSE LET name == filenameOf(r.image.url)
       IN  IF name \in DOMAIN images /\ images[name] # <<>>
           THEN [r EXCEPT !.image = StringImage(images[name])]
           ELSE r

\* x || []
OrEmpty(opt) == IF opt.defined THEN opt.items ELSE <<>>

\* (block.sections || []).map(s => ({ ...s, rewards: (s.rewards || []).map(...) }))
RewriteSections(sections, images) ==
  Defined([i \in 1..Len(OrEmpty(sections)) |->
    [OrEmpty(sections)[i] EXCEPT !.rewards =
       Defined([j \in 1..Len(OrEmpty(OrEmpty(sections)[i].rewards)) |->
                  RewriteReward(OrEmpty(OrEmpty(sections)[i].rewards)[j], images)])]])

\* the callback of (data.pages || []).map
RewritePage(p, images) ==
  IF p.blocks.defined /\ Len(p.blocks.items) > 0
  THEN [p EXCEPT !.blocks =
          Defined([i \in 1..Len(p.blocks.items) |->
                     [p.blocks.items[i] EXCEPT !.sections =
                        RewriteSections(p.blocks.items[i].sections, images)]])]
  ELSE [p EXCEPT !.sections = RewriteSections(p.sections, images)]

rewriteImages(doc, images) ==
  IF ~images.defined \/ DOMAIN images.entries = {} THEN doc
  ELSE [doc EXCEPT !.pages =
          Defined([i \in 1..Len(OrEmpty(doc.pages)) |->
                     RewritePage(OrEmpty(doc.pages)[i], images.entries)])]

\* rewriteImages is applied to the data, and then to its own result, with
\* the same images
RewriteImages ==
  /\ rewriteCalls < 2
  /\ rewriteCalls' = rewriteCalls + 1
  /\ rewritten' = rewriteImages(rewritten, rewriteMap)
  /\ rewrittenOnce' = IF rewriteCalls = 0 THEN rewritten' ELSE rewrittenOnce
  /\ UNCHANGED <<rewriteData, rewriteMap>>

RewriteInitWith(documents, maps) ==
  /\ rewriteData \in documents
  /\ rewriteMap \in maps
  /\ rewritten = rewriteData
  /\ rewrittenOnce = rewriteData
  /\ rewriteCalls = 0

\* nothing to rewrite
NoDocument == {[pages |-> Undefined]}

----------------------------------------------------------------------------
(* PageCanvas and RewardItem: the page layout *)

\* most rewards of a section
MaxRewards == 4

\* a JavaScript number of the layout: an integer, NaN or Infinity
Num(v) == [kind |-> "finite", v |-> v]
NaN == [kind |-> "NaN", v |-> 0]
Infinity == [kind |-> "Infinity", v |-> 0]
isFinite(x) == x.kind = "finite"

\* x ? ... : ... on a number: 0 and NaN are falsy
Truthy(x) == x.kind = "Infinity" \/ (x.kind = "finite" /\ x.v # 0)

\* a + b (no operand is -Infinity)
Plus(a, b) ==
  IF a.kind = "NaN" \/ b.kind = "NaN" THEN NaN
  ELSE IF a.kind = "Infinity" \/ b.kind = "Infinity" THEN Infinity
  ELSE Num(a.v + b.v)

\* Math.max(a, b)
MathMax(a, b) ==
  IF a.kind = "NaN" \/ b.kind = "NaN" THEN NaN
  ELSE IF a.kind = "Infinity" \/ b.kind = "Infinity" THEN Infinity
  ELSE Num(IF a.v >= b.v THEN a.v ELSE b.v)

\* Math.ceil(size * lineHeight) for size in pixels and lineHeight in
\* quarters, neither negative: Infinity * 0 is NaN
CeilTimes(size, lineHeight) ==
  IF size.kind = "NaN" \/ lineHeight.kind = "NaN" THEN NaN
  ELSE IF isFinite(size) /\ isFinite(lineHeight) THEN Num(Ceil(size.v * lineHeight.v))
  ELSE IF (isFinite(size) /\ size.v = 0) \/ (isFinite(lineHeight) /\ lineHeight.v = 0) THEN NaN
  ELSE Infinity

\* style.font.size - 2
MinusTwo(size) == IF isFinite(size) THEN Num(size.v - 2) ELSE size

\* measurePlainTextHeight called by the layout, with a canvas context: a
\* font size or line height that is NaN or Infinity passes the parameter
\* check and makes the result non-finite, which is returned as 0
measureHeight(text, width, fontSize, lineHeight) ==
  IF isFinite(fontSize) /\ isFinite(lineHeight)
  THEN measurePlainTextHeight(text, width, fontSize.v, lineHeight.v, TRUE)
  ELSE 0

\* the constants of PageCanvas
gapH == 12
sectionGap == 20
rewardColCount == 3
rewardGutterX == 12
rewardGapH == 12

\* the constants of RewardItem
imgBoxSize == 160
imgPadding == 4
imgBoxH == imgBoxSize + imgPadding * 2
textStartY == imgBoxH + 4
textGapV == 4

\* styles: defaultStyle() with the line height 1.5, a narrow page, and
\* each of them with one value replaced by a non-finite or zero one (the
\* page widths make the reward column a whole number of pixels wide)
LayoutStyle(w, t, r, b, l, size, lh) ==
  [pageWidth |-> w, pad |-> [t |-> t, r |-> r, b |-> b, l |-> l],
   font |-> [size |-> size, lineHeight |-> lh]]
WideStyle == LayoutStyle(Num(750), Num(100), Num(48), Num(100), Num(48), Num(24), Num(6))
NarrowStyle == LayoutStyle(Num(156), Num(100), Num(48), Num(100), Num(48), Num(24), Num(6))
NonFinite == {NaN, Infinity}
Variants(st) ==
  {st}
  \cup {[st EXCEPT !.pageWidth = x] : x \in NonFinite \cup {Num(90)}}
  \cup {[st EXCEPT !.pad.t = x] : x \in NonFinite}
  \cup {[st EXCEPT !.pad.b = x] : x \in NonFinite}
  \cup {[st EXCEPT !.pad.l = x] : x \in NonFinite}
  \cup {[st EXCEPT !.font.size = x] : x \in NonFinite \cup {Num(0)}}
  \cup {[st EXCEPT !.font.lineHeight = x] : x \in NonFinite}
LayoutStyles == Variants(WideStyle) \cup {NarrowStyle}

\* rewards: name and desc present or not under an image, a reward with
\* nothing, and a description of two paragraphs
Rewards ==
  [name : BOOLEAN, desc : {<<>>, <<"a">>}, image : {TRUE}]
  \cup {[name |-> FALSE, desc |-> <<>>, image |-> FALSE],
        [name |-> FALSE, desc |-> <<"a", "\n", "W">>, image |-> TRUE]}
\* lists of up to MaxRewards rewards, alternating between two rewards
RewardLists ==
  {[i \in 1..n |-> IF i % 2 = 1 THEN p[1] ELSE p[2]] :
     n \in 0..MaxRewards, p \in Rewards \X Rewards}
\* sections: title and content present or not
LayoutSections == [title : BOOLEAN, content : {<<>>, <<"a", "W">>}, rewards : RewardLists]
EmptySection == [title |-> FALSE, content |-> <<>>, rewards |-> <<>>]
TitleSection == [title |-> TRUE, content |-> <<>>, rewards |-> <<>>]
\* pages of no, one and two sections
LayoutPages ==
  {<<>>} \cup {<<s>> : s \in LayoutSections}
  \cup {<<s, t>> : s \in LayoutSections, t \in {EmptySection, TitleSection}}
  \cup {<<EmptySection, TitleSection, TitleSection>>}

VARIABLES
  layoutStyle,     \* the style prop of PageCanvas
  layoutPage,      \* normalizedPage.sections || []
  pageLayout,      \* what the render computed and drew
  layoutPc,        \* "mount" | "rendered" | "committed"
  measuredHeights  \* the arguments of the onMeasured calls, in order

layoutVars == <<layoutStyle, layoutPage, pageLayout, layoutPc, measuredHeights>>

\* isFinite(PAD.l) ? PAD.l : 0
contentX(st) == IF isFinite(st.pad.l) THEN st.pad.l.v ELSE 0
\* isFinite(PAD.t) ? PAD.t : 0
contentY(st) == IF isFinite(st.pad.t) THEN st.pad.t.v ELSE 0
\* isFinite(W) && isFinite(PAD.l) && isFinite(PAD.r) ? W - PAD.l - PAD.r : 0
contentW(st) ==
  IF isFinite(st.pageWidth) /\ isFinite(st.pad.l) /\ isFinite(st.pad.r)
  THEN st.pageWidth.v - st.pad.l.v - st.pad.r.v
  ELSE 0

\* contentW > 0 ? (contentW - rewardGutterX * (rewardColCount - 1)) / rewardColCount : 0
rewardColW(st) ==
  IF contentW(st) > 0
  THEN (contentW(st) - rewardGutterX * (rewardColCount - 1)) \div rewardColCount
  ELSE 0

\* section.title ? Math.ceil(style.font.size * style.font.lineHeight) : 0
titleH(section, st) ==
  IF section.title THEN CeilTimes(st.font.size, st.font.lineHeight) ELSE Num(0)

\* section.content && contentW > 0 ? measurePlainTextHeight(...) : 0
contentH(section, st) ==
  IF section.content # <<>> /\ contentW(st) > 0
  THEN measureHeight(section.content, contentW(st), st.font.size, st.font.lineHeight)
  ELSE 0

\* rewards.length > 0 ? Math.ceil(rewards.length / rewardColCount) : 0
rewardRows(rewards) ==
  IF Len(rewards) > 0 THEN (Len(rewards) + rewardColCount - 1) \div rewardColCount ELSE 0

\* rowStartIdx and rowEndIdx of a row (0-based, the end excluded)
rowStartIdx(row) == row * rewardColCount
rowEndIdx(rewards, row) ==
  IF rowStartIdx(row) + rewardColCount <= Len(rewards)
  THEN rowStartIdx(row) + rewardColCount
  ELSE Len(rewards)

\* itemH of the row loop of PageCanvas, for the reward r
itemH(r, st) ==
  LET nameH == IF r.name THEN CeilTimes(st.font.size, st.font.lineHeight) ELSE Num(0)
      descH == IF r.desc # <<>> /\ rewardColW(st) > 0
               THEN measureHeight(r.desc, rewardColW(st), MinusTwo(st.font.size),
                                  st.font.lineHeight)
               ELSE 0
  IN  Plus(Plus(Num(160 + 8), IF Truthy(nameH) THEN Plus(nameH, Num(4)) ELSE Num(0)),
           IF descH # 0 THEN Num(descH + 4) ELSE Num(0))

RECURSIVE maxRowH(_, _, _, _, _)
\* the inner loop: maxRowH = Math.max(maxRowH, itemH) for i in rowStartIdx..rowEndIdx-1
maxRowH(rewards, i, end, acc, st) ==
  IF i >= end THEN acc
  ELSE maxRowH(rewards, i + 1, end, MathMax(acc, itemH(rewards[i + 1], st)), st)

\* rewardRowHeights of one section, by row
rewardRowHeights(rewards, st) ==
  [row \in 0..(rewardRows(rewards) - 1) |->
     maxRowH(rewards, rowStartIdx(row), rowEndIdx(rewards, row), Num(0), st)]

RECURSIVE rewardsHFrom(_, _, _, _)
\* the row loop: rewardsH += maxRowH; if (row < rewardRows - 1) rewardsH += rewardGapH
rewardsHFrom(rewards, row, acc, st) ==
  IF row >= rewardRows(rewards) THEN acc
  ELSE rewardsHFrom(rewards, row + 1,
         Plus(Plus(acc, rewardRowHeights(rewards, st)[row]),
              IF row < rewardRows(rewards) - 1 THEN Num(rewardGapH) ELSE Num(0)),
         st)
rewardsH(rewards, st) == rewardsHFrom(rewards, 0, Num(0), st)

\* (titleH ? titleH + gapH : 0) + (contentH ? contentH + gapH : 0) + rewardsH
sectionH(section, st) ==
  Plus(Plus(IF Truthy(titleH(section, st)) THEN Plus(titleH(section, st), Num(gapH))
            ELSE Num(0),
            IF contentH(section, st) # 0 THEN Num(contentH(section, st) + gapH)
            ELSE Num(0)),
       rewardsH(section.rewards, st))

RECURSIVE sectionsH_GapBeforeEach(_, _, _, _)
\* (mutant) the gap is added before the first section too
sectionsH_GapBeforeEach(sections, i, sum, st) ==
  IF i >= Len(sections) THEN sum
  ELSE sectionsH_GapBeforeEach(sections, i + 1,
         Plus(Plus(sum, sectionH(sections[i + 1], st)), Num(sectionGap)), st)

RECURSIVE sectionsH(_, _, _, _)
\* sections.reduce((sum, s, i) => sum + s.sectionH + (i > 0 ? sectionGap : 0), 0)
sectionsH(sections, i, sum, st) ==
  IF i >= Len(sections) THEN sum
  ELSE sectionsH(sections, i + 1,
         Plus(Plus(sum, sectionH(sections[i + 1], st)),
              IF i > 0 THEN Num(sectionGap) ELSE Num(0)), st)

\* const innerH = sectionsH; const H = PAD.t + innerH + PAD.b
innerH(sections, st) == sectionsH(sections, 0, Num(0), st)
PageHeight(sections, st) == Plus(Plus(st.pad.t, innerH(sections, st)), st.pad.b)

RECURSIVE sectionY(_, _, _)
\* sectionsWithPos: currentY starts at contentY and grows by
\* s.sectionH + (i < sections.length - 1 ? sectionGap : 0) after section i
sectionY(sections, i, st) ==
  IF i = 0 THEN Num(contentY(st))
  ELSE Plus(sectionY(sections, i - 1, st),
            Plus(sectionH(sections[i], st), Num(sectionGap)))

\* rewardsY: the section's y moved past its title and its content
rewardsY(section, y, st) ==
  Plus(Plus(y, IF Truthy(titleH(section, st)) THEN Plus(titleH(section, st), Num(gapH))
               ELSE Num(0)),
       IF contentH(section, st) # 0 THEN Num(contentH(section, st) + gapH) ELSE Num(0))

RECURSIVE rowY(_, _, _, _)
\* rowY = rewardsY; for r < row: rowY += rewardRowHeights[r] || 0; rowY += rewardGapH
rowY(rewards, row, y, st) ==
  IF row = 0 THEN y
  ELSE Plus(rowY(rewards, row - 1, y, st),
            Plus(rewardRowHeights(rewards, st)[row - 1], Num(rewardGapH)))

\* rowItemCount * rewardColW + (rowItemCount - 1) * rewardGutterX
rowTotalW(rowItemCount, st) ==
  rowItemCount * rewardColW(st) + (rowItemCount - 1) * rewardGutterX

\* (mutant) every row starts at the content origin
rowStartX_LeftAligned(isLastRow, rowItemCount, st) == 2 * contentX(st)

\* rowStartX, in half pixels: isLastRow && rowItemCount < rewardColCount
\*   ? contentX + (contentW - rowTotalW) / 2 : contentX
rowStartX(isLastRow, rowItemCount, st) ==
  IF isLastRow /\ rowItemCount < rewardColCount
  THEN 2 * contentX(st) + (contentW(st) - rowTotalW(rowItemCount, st))
  ELSE 2 * contentX(st)

\* totalH of RewardItem:
\* imgBoxH + (nameH ? nameH + textGapV : 0) + (descH ? descH + textGapV : 0)
totalH(reward, width, st) ==
  LET nameH == IF reward.name THEN CeilTimes(st.font.size, st.font.lineHeight) ELSE Num(0)
      descH == IF reward.desc # <<>> /\ width > 0
               THEN measureHeight(reward.desc, width, MinusTwo(st.font.size),
                                  st.font.lineHeight)
               ELSE 0
  IN  Plus(Plus(Num(imgBoxH), IF Truthy(nameH) THEN Plus(nameH, Num(textGapV)) ELSE Num(0)),
           IF descH # 0 THEN Num(descH + textGapV) ELSE Num(0))

\* the lowest point of what RewardItem draws, from the top of its group:
\* the image inside its box from y = imgPadding, the name as one line of the
\* font size from y = textStartY, the description with its measured height
\* from y = textStartY + nameH + textGapV
drawnBottom(reward, width, st) ==
  LET nameH == IF reward.name THEN CeilTimes(st.font.size, st.font.lineHeight) ELSE Num(0)
      descH == IF reward.desc # <<>> /\ width > 0
               THEN measureHeight(reward.desc, width, MinusTwo(st.font.size),
                                  st.font.lineHeight)
               ELSE 0
      image == IF reward.image THEN Num(imgPadding + imgBoxSize) ELSE Num(0)
      name == IF reward.name THEN Plus(Num(textStartY), st.font.size) ELSE Num(0)
      desc == IF reward.desc # <<>>
              THEN Plus(Plus(Plus(Num(textStartY), nameH), Num(textGapV)), Num(descH))
              ELSE Num(0)
  IN  MathMax(MathMax(image, name), desc)

\* the reward grid of one section: for each reward its row and column, its
\* position, and what the RewardItem rendered there computes and draws
RewardGrid(section, y, st) ==
  LET rewards == section.rewards
  IN  [k \in 1..Len(rewards) |->
        LET row == (k - 1) \div rewardColCount
            colInRow == (k - 1) % rewardColCount
            rowItemCount == rowEndIdx(rewards, row) - rowStartIdx(row)
            isLastRow == row = rewardRows(rewards) - 1
            itemY == rowY(rewards, row, rewardsY(section, y, st), st)
        IN  [row |-> row,
             colInRow |-> colInRow,
             rowItemCount |-> rowItemCount,
             rowH |-> rewardRowHeights(rewards, st)[row],
             x |-> rowStartX(isLastRow, rowItemCount, st)
                     + 2 * colInRow * (rewardColW(st) + rewardGutterX),
             y |-> itemY,
             rendered |-> isFinite(itemY),
             itemH |-> itemH(rewards[k], st),
             totalH |-> totalH(rewards[k], rewardColW(st), st),
             drawnBottom |-> drawnBottom(rewards[k], rewardColW(st), st)]]

\* one render of PageCanvas
PageCanvas(sections, st) ==
  [H |-> PageHeight(sections, st),
   sections |->
     [i \in 1..Len(sections) |->
        [sectionH |-> sectionH(sections[i], st),
         y |-> sectionY(sections, i - 1, st),
         rewardRows |-> rewardRows(sections[i].rewards),
         items |-> RewardGrid(sections[i], sectionY(sections, i - 1, st), st)]]]

\* nothing rendered yet
NoLayout == [H |-> Num(0), sections |-> <<>>]

\* React renders PageCanvas and the RewardItems in it
RenderPageCanvas ==
  /\ layoutPc = "mount"
  /\ layoutPc' = "rendered"
  /\ pageLayout' = PageCanvas(layoutPage, layoutStyle)
  /\ UNCHANGED <<layoutStyle, layoutPage, measuredHeights>>

\* the effect on [H]: if (typeof H === 'number' && isFinite(H)) onMeasured?.(H)
ReportHeight ==
  /\ layoutPc = "rendered"
  /\ layoutPc' = "committed"
  /\ measuredHeights' = IF isFinite(pageLayout.H)
                        THEN Append(measuredHeights, pageLayout.H)
                        ELSE measuredHeights
  /\ UNCHANGED <<layoutStyle, layoutPage, pageLayout>>

LayoutInitWith(pages, styles) ==
  /\ layoutPage \in pages
  /\ layoutStyle \in styles
  /\ pageLayout = NoLayout
  /\ layoutPc = "mount"
  /\ measuredHeights = <<>>

----------------------------------------------------------------------------
(* Specifications *)

\* the state of the layout functions
\* the state of the functions applied to a document
contentVars == <<rewriteVars, layoutVars>>
\* no document is being processed
ContentIdle ==
  RewriteInitWith(NoDocument, {NoImages}) /\ LayoutInitWith({<<>>}, {WideStyle})

pureVars == <<textVars, sliceVars, tableVars, pageVars, contentVars>>
\* no layout function is being evaluated
PureIdle ==
  TextInitWith(NoText) /\ SliceInitWith(NoSlice) /\ TableIdle /\ PageInitWith(NoPage) /\ ContentIdle
\* the state of the page and of the exporter
appVars == <<driverVars, exportVars, styleVars, docVars>>

vars == <<driverVars, exportVars, styleVars, docVars, pureVars>>

\* the page after its first render, with a document loaded
ExportInit == ExportInitWith(SheetSets)
Init == DriverInit /\ ExportInit /\ StyleInit /\ DocInit /\ PureIdle
\* the same with one fixed document, for the parts that do not read it
InitOneDocument == DriverInit /\ ExportInitWith({<<1>>}) /\ StyleInit /\ DocInit /\ PureIdle

DriverNext ==
  \/ Mount /\ UNCHANGED <<exportVars, styleVars, docVars, pureVars>>
  \/ \E v \in Heights : Report(v) /\ UNCHANGED <<exportVars, styleVars, docVars, pureVars>>
  \/ \E url \in DataUrls : FrameTick(url) /\ UNCHANGED <<exportVars, styleVars, docVars, pureVars>>
  \/ \E url \in DataUrls : TimeoutFires(url) /\ UNCHANGED <<exportVars, styleVars, docVars, pureVars>>

\* one OffscreenExporter, from root.render to the unmount
DriverSpec == InitOneDocument /\ [][DriverNext]_vars

ExportNext ==
  \/ StartExport /\ UNCHANGED <<driverVars, styleVars, docVars, pureVars>>
  \/ \E url \in DataUrls : PageResolved(url) /\ UNCHANGED <<driverVars, styleVars, docVars, pureVars>>
  \/ RenderThrows /\ UNCHANGED <<driverVars, styleVars, docVars, pureVars>>
  \/ \E c \in ZipValues : OnSaveProgress("zip", c, 100) /\ UNCHANGED <<driverVars, styleVars, docVars, pureVars>>
  \/ \E w \in WriteValues : OnSaveProgress("write", w[1], w[2]) /\ UNCHANGED <<driverVars, styleVars, docVars, pureVars>>
  \/ OnSaveProgress("done", 100, 100) /\ UNCHANGED <<driverVars, styleVars, docVars, pureVars>>
  \/ \E ok \in BOOLEAN : SaveReturns(ok) /\ UNCHANGED <<driverVars, styleVars, docVars, pureVars>>
  \/ SaveThrows /\ UNCHANGED <<driverVars, styleVars, docVars, pureVars>>
  \/ ResetTimerFires /\ UNCHANGED <<driverVars, styleVars, docVars, pureVars>>

\* the export button pressed up to MaxRuns times, each run against an
\* unconstrained packaging collaborator
ExportSpec == Init /\ [][ExportNext]_vars

StyleNext ==
  \/ \E side \in Sides, v \in PadInputs : EditPad(side, v) /\ UNCHANGED <<driverVars, exportVars, docVars, pureVars>>
  \/ \E side \in Sides, v \in SliceInputs : EditSlice(side, v) /\ UNCHANGED <<driverVars, exportVars, docVars, pureVars>>
  \/ \E f \in {"titleColor", "contentColor"}, c \in ColorInputs :
        EditColor(f, c) /\ UNCHANGED <<driverVars, exportVars, docVars, pureVars>>
  \/ FlushTimer /\ UNCHANGED <<driverVars, exportVars, docVars, pureVars>>
  \/ \E d \in BorderFiles : PickBorder(d) /\ UNCHANGED <<driverVars, exportVars, docVars, pureVars>>
  \/ OtherUpdate /\ UNCHANGED <<driverVars, exportVars, docVars, pureVars>>
  \/ Render /\ UNCHANGED <<driverVars, exportVars, docVars, pureVars>>

\* the user editing the style: up to MaxEdits edits and border picks
StyleSpec == InitOneDocument /\ [][StyleNext]_vars

\* the page as constructed: no document loaded
InitNoDocument == DriverInit /\ ExportInitWith({<<>>}) /\ StyleInit /\ DocInit /\ PureIdle

DocNext ==
  \/ PickJson /\ UNCHANGED <<driverVars, styleVars, pureVars>>
  \/ \E json \in JsonDocuments : JsonParsed(json) /\ UNCHANGED <<driverVars, styleVars, pureVars>>
  \/ JsonThrows /\ UNCHANGED <<driverVars, styleVars, pureVars>>
  \/ PickXlsx /\ UNCHANGED <<driverVars, styleVars, pureVars>>
  \/ \E payload \in Payloads : XlsxParsed(payload) /\ UNCHANGED <<driverVars, styleVars, pureVars>>
  \/ \E msg \in ParseErrors : XlsxThrows(msg) /\ UNCHANGED <<driverVars, styleVars, pureVars>>
  \/ PickUnsupported /\ UNCHANGED <<driverVars, styleVars, pureVars>>
  \/ \E name \in {"A", "B", "C", "D"} : OnSheetChange(name) /\ UNCHANGED <<driverVars, styleVars, pureVars>>
  \/ RunEffects /\ UNCHANGED <<driverVars, styleVars, pureVars>>
  \/ \E v \in PadInputs : EditPad("t", v) /\ UNCHANGED <<driverVars, exportVars, docVars, pureVars>>
  \/ ~EffectsPending /\ FlushTimer /\ UNCHANGED <<driverVars, exportVars, docVars, pureVars>>

\* the user loading files, switching sheets and editing the top padding
DocSpec == InitNoDocument /\ [][DocNext]_vars

TextNext == MeasureText /\ UNCHANGED <<appVars, sliceVars, tableVars, pageVars, contentVars>>

\* measurePlainTextHeight called once with each of the arguments
TextSpecInit ==
  /\ DriverInit /\ ExportInitWith({<<1>>}) /\ StyleInit /\ DocInit
  /\ TextInitWith(TextArgs) /\ SliceInitWith(NoSlice) /\ TableIdle /\ PageInitWith(NoPage)
  /\ ContentIdle
TextSpec == TextSpecInit /\ [][TextNext]_vars

SliceNext == RenderNineSlice /\ UNCHANGED <<appVars, textVars, tableVars, pageVars, contentVars>>

\* NineSlice rendered once with each of the props
SliceSpecInit ==
  /\ DriverInit /\ ExportInitWith({<<1>>}) /\ StyleInit /\ DocInit
  /\ TextInitWith(NoText) /\ SliceInitWith(SliceArgs) /\ TableIdle /\ PageInitWith(NoPage)
  /\ ContentIdle
SliceSpec == SliceSpecInit /\ [][SliceNext]_vars

TableNext ==
  \/ LayoutEffects /\ UNCHANGED <<appVars, textVars, sliceVars, pageVars, contentVars>>
  \/ \E keys \in SUBSET {k \in CellKeys(tableRows) : CellAt(tableRows, k).is_image} :
        ImagesLoaded(keys) /\ UNCHANGED <<appVars, textVars, sliceVars, pageVars, contentVars>>
  \/ \E f \in {1, 2} : Reflow(f) /\ UNCHANGED <<appVars, textVars, sliceVars, pageVars, contentVars>>

\* one TableComponent from its first render on: its images load, its
\* texts wrap differently up to MaxReflows times
TableSpecInit ==
  /\ DriverInit /\ ExportInitWith({<<1>>}) /\ StyleInit /\ DocInit
  /\ TextInitWith(NoText) /\ SliceInitWith(NoSlice)
  /\ TableInitWith(TableRows, HeaderHeights, TableFontSizes) /\ PageInitWith(NoPage)
  /\ ContentIdle
TableSpec == TableSpecInit /\ [][TableNext]_vars

PageNext == NormalizePage /\ UNCHANGED <<appVars, textVars, sliceVars, tableVars, contentVars>>

\* normalizePage called once with each of the pages
PageSpecInit ==
  /\ DriverInit /\ ExportInitWith({<<1>>}) /\ StyleInit /\ DocInit
  /\ TextInitWith(NoText) /\ SliceInitWith(NoSlice) /\ TableIdle
  /\ PageInitWith(Pages) /\ ContentIdle
PageSpec == PageSpecInit /\ [][PageNext]_vars

\* the pure functions other than those of a document are idle
LayoutIdle == TextInitWith(NoText) /\ SliceInitWith(NoSlice) /\ TableIdle /\ PageInitWith(NoPage)

RewriteNext ==
  RewriteImages /\ UNCHANGED <<appVars, textVars, sliceVars, tableVars, pageVars, layoutVars>>

\* rewriteImages applied twice to each document with each image map
RewriteSpecInit ==
  /\ DriverInit /\ ExportInitWith({<<1>>}) /\ StyleInit /\ DocInit /\ LayoutIdle
  /\ RewriteInitWith(Documents, ImageMaps) /\ LayoutInitWith({<<>>}, {WideStyle})
RewriteSpec == RewriteSpecInit /\ [][RewriteNext]_vars

LayoutNext ==
  \/ RenderPageCanvas /\ UNCHANGED <<appVars, textVars, sliceVars, tableVars, pageVars, rewriteVars>>
  \/ ReportHeight /\ UNCHANGED <<appVars, textVars, sliceVars, tableVars, pageVars, rewriteVars>>

\* PageCanvas mounted with each of the pages and styles
LayoutSpecInit ==
  /\ DriverInit /\ ExportInitWith({<<1>>}) /\ StyleInit /\ DocInit /\ LayoutIdle
  /\ RewriteInitWith(NoDocument, {NoImages}) /\ LayoutInitWith(LayoutPages, LayoutStyles)
LayoutSpec == LayoutSpecInit /\ [][LayoutNext]_vars

----------------------------------------------------------------------------
(* Claims about the Offscreen Export Driver *)

\* the 5 s timer or a frame callback can still run, or the first commit can
DriverProgress ==
  \/ Mount
  \/ \E url \in DataUrls : FrameTick(url)
  \/ \E url \in DataUrls : TimeoutFires(url)

\* C1: no invocation of renderPageToDataURL waits forever: whatever heights
\* are reported, an unresolved invocation always has the 5 s timeout (or the
\* frame callbacks of a started export) ahead of it, so that it resolves.
C1_NoInvocationWaitsForever == resolved \/ ENABLED DriverProgress

H800 == Px(800)
H900 == Px(900)

\* the export was triggered by the stability test (not by the timeout)
StableTriggered == hasExportedRef /\ (raf > 0 \/ ticks > 0)

\* C2: after the reports 800, 800, 800 (h starting at 2400) the export has been
\* triggered, and it has not been triggered before the third 800; the same
\* after 900, 800, 800, 800.
C2_TriggerOnThirdRepeated800 ==
  /\ hist = <<H800, H800, H800>> => StableTriggered
  /\ hist = <<H900, H800, H800, H800>> => StableTriggered
  /\ hist \in {<<H800>>, <<H800, H800>>, <<H900>>, <<H900, H800>>,
               <<H900, H800, H800>>} => ~StableTriggered

\* a step in which the effect of OffscreenExporter observes a height: the
\* first commit, or a commit with a changed h
Observes == (~mounted /\ mounted') \/ (mounted /\ mounted' /\ h' # h)

C4_StableRasterizesAtThirdTick ==
  /\ (hasExportedRef /\ ~resolved) => ENABLED (\E url \in DataUrls : FrameTick(url))
  /\ (resolved /\ ticks > 0) => ticks = FrameCount

----------------------------------------------------------------------------
(* Claims about the Export Orchestrator *)

\* an item with an empty dataUrl was collected by the current run
HasEmptyImage ==
  \/ \E i \in 1..Len(allExports) : \E k \in 1..Len(allExports[i]) :
       allExports[i][k].dataUrl = ""
  \/ \E k \in 1..Len(items) : items[k].dataUrl = ""

\* every page of every sheet has been rendered by the current run
AllPagesRendered ==
  /\ Len(allExports) = Len(allSheets)
  /\ \A i \in 1..Len(allSheets) : Len(allExports[i]) = allSheets[i]

\* C5: a page that resolved with an empty image does not stop the batch (the
\* remaining pages of all sheets are rendered unless an error is thrown), and
\* the run then ends with a reported failure, never with a delivered package.
C5_EmptyImageFailsExport ==
  (HasEmptyImage /\ outcome # "renderError") =>
     /\ pc # "render" => AllPagesRendered
     /\ pc = "idle" => (outcome # "ok" /\ alerts = 1)

Rank(ph) ==
  CASE ph = "null" -> 0
    [] ph = "render" -> 1
    [] ph = "zip" -> 2
    [] ph = "write" -> 3
    [] ph = "done" -> 4

\* C6: while an export runs, the phase only moves forward along render, zip,
\* write, done, whatever the packaging collaborator emits.
C6_PhaseOnlyMovesForward ==
  [][(pc # "idle" /\ pc' # "idle") => Rank(exportPhase') >= Rank(exportPhase)]_vars

\* a step of the render phase in which a page's render resolved
PageRendered == pc = "render" /\ pc' # "idle" /\ <<items, allExports>>' # <<items, allExports>>

\* C7: in the render phase the progress counter starts at 0, goes up by
\* exactly 1 with each rendered page and by nothing else, never exceeds the
\* total, and is the sum of the page counts when the render phase completes.
C7_RenderProgress ==
  [][ /\ (pc = "idle" /\ pc' # "idle") => renderCurr' = 0
      /\ PageRendered => (renderCurr' = renderCurr + 1 /\ renderCurr' <= renderTotal')
      /\ (pc = "render" /\ pc' = "render" /\ ~PageRendered) => renderCurr' = renderCurr
      /\ (pc = "render" /\ pc' = "save") => renderCurr' = SumPages(allSheets)
    ]_vars

Failures == {"renderError", "saveError", "notOk"}

\* C8: when rendering or packaging throws, or packaging returns ok = false,
\* the run ends there: one alert for the run, loading cleared, no phase
\* entered by the failing step or after it, and packaging is not invoked
\* after a render error.
C8_FailureAbortsExport ==
  [][ /\ (outcome = "running" /\ outcome' \in Failures) =>
           /\ alerts = 0 /\ alerts' = 1
           /\ ~loading' /\ pc' = "idle"
           /\ exportPhase' = exportPhase
           /\ saveCalled' = saveCalled
           /\ outcome' = "renderError" => ~saveCalled'
      /\ (outcome \in Failures /\ outcome' = outcome) =>
           /\ alerts' = alerts /\ ~loading' /\ pc' = "idle"
           /\ saveCalled' = saveCalled
           /\ exportPhase' \in {exportPhase, "null"}
    ]_vars

\* C8 witness: a render error in the second sheet ended the run
C8_Witness ==
  /\ outcome = "renderError" /\ alerts = 1 /\ ~loading /\ pc = "idle"
  /\ Len(allExports) = 1 /\ ~saveCalled /\ exportPhase = "render"

\* C9: after a run has ended, its terminal phase and counters stay as they
\* are until the 1500 ms timer of that run fires, which resets them to idle.
C9_ResetAfterOwnDelay ==
  [][ (pc = "idle" /\ run > 0) =>
        /\ timers # <<>>
             \/ <<exportPhase, renderCurr, renderTotal, zipPercent, writePercent>>
                  = <<"null", 0, 0, 0, 0>>
        /\ (pc' = "idle" /\ exportPhase # "null" /\ exportPhase' = "null") =>
             Head(timers) = run
    ]_vars

----------------------------------------------------------------------------
(* Claims about the debounced style update *)

\* the current burst of edits has been flushed and rendered
BurstFlushed == DOMAIN written # {} /\ ~debounceTimerRef /\ queue = <<>>

\* C10: a burst of setStyleDebounced calls ends in exactly one applied style
\* mutation, and the style then carries the last value written to each
\* field, each padding side included.
C10_BurstAppliedOnceWithLastValues ==
  BurstFlushed =>
    /\ applied = 1
    /\ \A path \in DOMAIN written : FieldOf(style, path) = written[path]

\* C11: after initialization the style is mutated only by a flush of the
\* debounced pending patch: every step that changes the style applies a flush.
C11_StyleWrittenOnlyByFlush ==
  [][style' # style => applied' = applied + 1]_vars

----------------------------------------------------------------------------
(* Claims about loading documents and the height cache *)

\* a step that sets an error message: a load ends in an input error
InputErrorStep == error' # "null" /\ error' # error

\* C12: a load that ends in an input error sets an error message and leaves
\* the sheet map, the sheet-name list, the current sheet, the displayed data
\* and the style as they were.
C12_InputErrorKeepsDocument ==
  [][InputErrorStep =>
       UNCHANGED <<allSheetsMap, sheetNames, currentSheet, data, style>>]_vars

\* C13: with at least one sheet the current sheet names a sheet of the
\* document and the displayed data is that sheet's data; with no sheet the
\* displayed data has no pages.
C13_CurrentSheetIsDisplayed ==
  IF sheetNames # <<>>
  THEN /\ currentSheet \in DOMAIN allSheetsMap
       /\ data = allSheetsMap[currentSheet]
  ELSE data.pages = <<>>

\* C14: once the effects have run, the canvas of every page is as high as
\* the layout of the page shown at its index.
C14_CanvasHeightIsLayoutHeight ==
  ~EffectsPending =>
    \A i \in 1..Len(data.pages) : StageHeight(i) = PageH(data.pages[i], style)

----------------------------------------------------------------------------
(* Claims about measurePlainTextHeight *)

\* the call has returned
TextMeasured == textResult # -1

\* T is empty or one of W, fontSize, lineHeight is non-positive
Degenerate ==
  \/ textArgs.text = <<>>
  \/ textArgs.width <= 0 \/ textArgs.fontSize <= 0 \/ textArgs.lineHeight <= 0

\* C15: for W > 0 the result is a non-negative multiple of
\* fontSize * lineHeight, and it is 0 exactly when T is empty or one of W,
\* fontSize, lineHeight is non-positive.
C15_MultipleOfLineHeight ==
  (TextMeasured /\ textArgs.width > 0) =>
    /\ \E n \in 0..(2 * MaxTextLen + 1) :
         4 * textResult = n * textArgs.fontSize * textArgs.lineHeight
    /\ textResult = 0 <=> Degenerate

\* C15 as amended: the result is n * fontSize * lineHeight rounded up to a
\* whole number, for a whole number n >= 0, and it is 0 exactly when T is
\* empty, one of W, fontSize, lineHeight is non-positive, or measuring a
\* character threw.
C15_RoundedUpMultiple ==
  TextMeasured =>
    /\ \E n \in 0..(2 * MaxTextLen + 1) :
         LET quarters == n * textArgs.fontSize * textArgs.lineHeight
         IN  4 * (textResult - 1) < quarters /\ quarters <= 4 * textResult
    /\ textResult = 0 <=>
         (Degenerate \/ MeasureThrows(textArgs.text, textArgs.canvas))

\* a height that is not a multiple of fontSize * lineHeight has been returned
C15_Witness ==
  /\ TextMeasured /\ textArgs.width > 0 /\ textResult > 0
  /\ (textArgs.fontSize * textArgs.lineHeight) % 4 # 0

\* the first character of a paragraph
ParagraphStart(i) == IF i = 1 THEN TRUE ELSE textArgs.text[i - 1] = "\n"

RECURSIVE SumWidths(_, _)
\* the width of the characters lo..hi of the text, in half pixels
SumWidths(lo, hi) ==
  IF lo > hi THEN 0
  ELSE measureTextWidth(textArgs.text[lo], textArgs.fontSize) + SumWidths(lo + 1, hi)

\* the running line width before character i, when the characters of S
\* each started a new line
RunningWidth(S, i) ==
  IF ParagraphStart(i) THEN 0
  ELSE LET starts == {j \in 1..(i - 1) : j \in S \/ ParagraphStart(j)}
           s == CHOOSE j \in starts : \A k \in starts : k <= j
       IN  SumWidths(s, i - 1)

\* the characters that start a new line under the per-character rule
LineBreaks ==
  LET letters == {i \in 1..Len(textArgs.text) : textArgs.text[i] # "\n"}
  IN  CHOOSE S \in SUBSET letters :
        \A i \in letters :
          i \in S <=>
            RunningWidth(S, i)
              + measureTextWidth(textArgs.text[i], textArgs.fontSize)
              > 2 * textArgs.width

\* L: one line per paragraph and one more for every character that starts
\* a new line
RuleLines ==
  Cardinality({i \in 1..Len(textArgs.text) : textArgs.text[i] = "\n"}) + 1
    + Cardinality(LineBreaks)

\* C16: for valid inputs the result is ceil(L * fontSize * lineHeight), L
\* being the line count of the per-character rule summed over the
\* paragraphs, an empty paragraph counting one line.
C16_HeightOfRuleLines ==
  (TextMeasured /\ ~Degenerate /\ textArgs.canvas) =>
    LET quarters == RuleLines * textArgs.fontSize * textArgs.lineHeight
    IN  4 * (textResult - 1) < quarters /\ quarters <= 4 * textResult

\* a text with an empty paragraph and with a wrapped paragraph was measured
C16_Witness ==
  /\ TextMeasured /\ ~Degenerate /\ textArgs.canvas
  /\ LineBreaks # {}
  /\ \E i \in 1..Len(textArgs.text) :
       textArgs.text[i] = "\n" /\ (IF i = 1 THEN TRUE ELSE textArgs.text[i - 1] = "\n")

----------------------------------------------------------------------------
(* Claims about NineSlice *)

\* the area an image is drawn on
DestArea(op) == op.width * op.height

\* C17: with the target as large as the bitmap and all insets 0, one image
\* is drawn, the full bitmap on the target rectangle, its destination as
\* large as its crop, and every other region has no area.
C17_DegeneratesToOneDraw ==
  ( /\ sliceDone /\ sliceOps # <<>>
    /\ sliceArgs.w = sliceArgs.sw /\ sliceArgs.h = sliceArgs.sh
    /\ \A s \in Sides : sliceArgs.slice[s] = 0 ) =>
    \E i \in 1..Len(sliceOps) :
      /\ sliceOps[i] = KImage(0, 0, sliceArgs.w, sliceArgs.h,
                              0, 0, sliceArgs.sw, sliceArgs.sh)
      /\ \A j \in 1..Len(sliceOps) : j # i => DestArea(sliceOps[j]) = 0

----------------------------------------------------------------------------
(* Claims about TableComponent *)

\* the row height of the claim: the largest measured cell height plus the
\* padding, and at least 2 * fontSize
PaddedThenFloored(rowIdx) ==
  LET padded == {cellHeights[k] + 2 * cellPadding :
                   k \in {q \in DOMAIN cellHeights : q[1] = rowIdx}}
      floor == 2 * tableFontSize
  IN  IF \E m \in padded : m > floor
      THEN CHOOSE m \in padded : \A o \in padded : o <= m
      ELSE floor

\* C18: the height of the header and of every row is the maximum over its
\* cells of the measured height plus 2 * cellPadding, and at least
\* 2 * fontSize.
C18_RowHeightPaddedThenFloored ==
  ~layoutDue =>
    /\ headerHeight = PaddedThenFloored(-1)
    /\ \A i \in 1..Len(rowPositions) : rowPositions[i].height = PaddedThenFloored(i - 1)

\* the height of the header (rowIdx -1) or of a row in the last render
RenderedRowHeight(rowIdx) ==
  IF rowIdx = -1 THEN headerHeight ELSE rowPositions[rowIdx + 1].height

\* what the nodes of a row measure
ContentHeights(rowIdx) ==
  {NodeHeight(k) : k \in {q \in HeaderKeys \cup CellKeys(tableRows) : q[1] = rowIdx}}

\* C18 as amended: the height of the header and of every row is the maximum
\* of 2 * fontSize and the measured heights of its cells, plus 2 * cellPadding.
C18_RowHeightFlooredThenPadded ==
  ~layoutDue =>
    \A rowIdx \in -1..(Len(tableRows) - 1) :
      LET inner == RenderedRowHeight(rowIdx) - 2 * cellPadding
      IN  /\ inner >= 2 * tableFontSize
          /\ \A c \in ContentHeights(rowIdx) : c <= inner
          /\ IF inner = 2 * tableFontSize THEN TRUE ELSE inner \in ContentHeights(rowIdx)

\* a settled table whose header is lower than 2 * fontSize and that has a
\* row higher than that
C18_Witness ==
  /\ ~layoutDue
  /\ \A c \in ContentHeights(-1) : c < 2 * tableFontSize
  /\ \E i \in 1..Len(rowPositions) :
       rowPositions[i].height - 2 * cellPadding > 2 * tableFontSize

RECURSIVE SumRowHeights(_)
\* the heights of the first n rows of the last render
SumRowHeights(n) == IF n = 0 THEN 0 ELSE SumRowHeights(n - 1) + rowPositions[n].height

\* C19: every row is placed at the header height plus the heights of the
\* rows before it, the total is the header height plus all row heights,
\* the heights are those of the current cell heights, and once the layout
\* effects have run that total is the one reported.
C19_RowsStackedFromCurrentHeights ==
  /\ Len(rowPositions) = Len(tableRows)
  /\ headerHeight = getRowHeight(cellHeights, -1, tableFontSize)
  /\ \A i \in 1..Len(rowPositions) :
       /\ rowPositions[i].height = getRowHeight(cellHeights, i - 1, tableFontSize)
       /\ rowPositions[i].y = headerHeight + SumRowHeights(i - 1)
  /\ totalHeight = headerHeight + SumRowHeights(Len(rowPositions))
  /\ ~layoutDue => reported = totalHeight

\* a table with rows of different heights has settled after an image loaded
\* late and its texts wrapped anew
C19_Witness ==
  /\ ~layoutDue /\ loadedImages # {} /\ reflows > 0
  /\ Len(rowPositions) = MaxRows
  /\ rowPositions[1].height # rowPositions[Len(rowPositions)].height

----------------------------------------------------------------------------
(* Claims about normalizePage *)

\* C20: normalizePage leaves its input unmodified and returns, for every
\* page, a page whose sections field is a sequence, possibly empty.
C20_SectionsNeverMissing ==
  normalizeDone => normalizedPage.sections.defined

\* the sections of the blocks, in order, counted
RECURSIVE BlockSectionCount(_)
BlockSectionCount(blocks) ==
  IF blocks = <<>> THEN 0
  ELSE (IF Head(blocks).sections.defined THEN Len(Head(blocks).sections.items) ELSE 0)
       + BlockSectionCount(Tail(blocks))

\* C20 as amended: for a page with a non-empty blocks list the result has
\* a sections sequence holding every section of the blocks, each tagged
\* with its block, and no blocks; every other page is returned as it is,
\* so that its sections field is a sequence only if the input has one.
C20_SectionsOfBlocksOrInput ==
  normalizeDone =>
    IF pageArg.blocks.defined /\ pageArg.blocks.items # <<>>
    THEN /\ normalizedPage.sections.defined
         /\ ~normalizedPage.blocks.defined
         /\ Len(normalizedPage.sections.items) = BlockSectionCount(pageArg.blocks.items)
         /\ \A i \in 1..Len(normalizedPage.sections.items) :
              /\ "_blockType" \in DOMAIN normalizedPage.sections.items[i]
              /\ normalizedPage.sections.items[i]["title"] = "s"
    ELSE normalizedPage = pageArg

\* a page with an empty blocks list and no sections field was normalized
C20_Witness ==
  /\ normalizeDone
  /\ pageArg.blocks.defined /\ pageArg.blocks.items = <<>>
  /\ ~pageArg.sections.defined

----------------------------------------------------------------------------
(* C26 *)

\* C26: for one invocation of renderPageToDataURL the completion callback
\* onDone is invoked at most once, whatever the order of height reports,
\* animation-frame callbacks and the 5000 ms timeout: the stable path and
\* the timeout path never both deliver a result.
C26_DoneAtMostOnce == doneCalls <= 1

\* the stable path delivered after a timeout had been armed by an earlier
\* effect run and heights had kept arriving
C26_Witness ==
  /\ doneCalls = 1
  /\ ticks = FrameCount
  /\ Len(hist) >= StableThreshold + 1

----------------------------------------------------------------------------
(* C27 *)

\* C27: while an export is in flight, no step resets its phase to idle or
\* its page total to 0: the 1500 ms reset timer left by an earlier run never
\* touches the progress state of a later run.
C27_NoStaleReset ==
  [][pc # "idle" => (exportPhase' # "null" /\ renderTotal' = renderTotal)]_vars

----------------------------------------------------------------------------
(* C28 *)

\* C28: a border image set by onPickBorder is never reverted: no step, and
\* in particular no flush of pending slice-inset edits, takes the style from
\* a picked border image back to another one.
C28_BorderImageKept ==
  [][style.border.image \in BorderFiles => style'.border.image = style.border.image]_vars

----------------------------------------------------------------------------
(* C30 *)

\* the text is one non-empty paragraph, measured with valid arguments and
\* a canvas context
OneParagraph ==
  /\ TextMeasured /\ ~Degenerate /\ textArgs.canvas
  /\ \A i \in 1..Len(textArgs.text) : textArgs.text[i] # "\n"

\* C30: for a non-empty paragraph of n characters the height returned is
\* that of at least 1 and at most n lines: no counted line is empty, even
\* when a single character is wider than the target width.
C30_LinesBetweenOneAndLength ==
  OneParagraph =>
    /\ textResult >= Ceil(textArgs.fontSize * textArgs.lineHeight)
    /\ textResult <= Ceil(Len(textArgs.text) * textArgs.fontSize * textArgs.lineHeight)

----------------------------------------------------------------------------
(* C25 *)

\* C25: image-reference rewriting is idempotent for every document and
\* every image map M: rewriteImages(rewriteImages(data, M), M) equals
\* rewriteImages(data, M), also when a substituted data URI ends in a path
\* segment that is a key of M.
C25_RewriteIdempotent == rewriteCalls = 2 => rewritten = rewrittenOnce

----------------------------------------------------------------------------
(* Claims about the page layout *)

RECURSIVE SumSectionH(_)
\* the sum of the section heights of a rendered page, all of them finite
SumSectionH(laidOut) ==
  IF laidOut = <<>> THEN 0 ELSE Head(laidOut).sectionH.v + SumSectionH(Tail(laidOut))

\* C21: the page total height is top padding + the sum of all section
\* heights + sectionGap * (sectionCount - 1) + bottom padding for a page
\* with at least one section, empty sections counted, and top padding +
\* bottom padding for a page with no section.
C21_PageTotalHeight ==
  (layoutPc # "mount" /\ isFinite(pageLayout.H)) =>
    LET n == Len(pageLayout.sections)
    IN  pageLayout.H.v =
          IF n = 0 THEN layoutStyle.pad.t.v + layoutStyle.pad.b.v
          ELSE layoutStyle.pad.t.v + SumSectionH(pageLayout.sections)
               + sectionGap * (n - 1) + layoutStyle.pad.b.v

\* a page of three sections, the first of them empty, was laid out
C21_Witness ==
  /\ layoutPc = "committed" /\ isFinite(pageLayout.H)
  /\ Len(pageLayout.sections) = 3
  /\ pageLayout.sections[1].sectionH = Num(0)
  /\ pageLayout.sections[2].sectionH.v > 0

\* a reward with no image, no name and no description
IsBare(r) == ~r.image /\ ~r.name /\ r.desc = <<>>

\* C22: a reward with no image, no name and no description occupies no
\* layout height: the rows of a section that holds only such rewards have
\* height 0, and such a section without title and content has height 0.
C22_BareRewardTakesNoHeight ==
  layoutPc # "mount" =>
    \A i \in 1..Len(layoutPage) :
      LET s == layoutPage[i]
      IN  (s.rewards # <<>> /\ \A k \in 1..Len(s.rewards) : IsBare(s.rewards[k])) =>
            /\ \A k \in 1..Len(s.rewards) : pageLayout.sections[i].items[k].rowH = Num(0)
            /\ (~s.title /\ s.content = <<>>) => pageLayout.sections[i].sectionH = Num(0)

\* the items of row `row` of the laid out section, in column order
RowItems(laidOut, row) == {k \in 1..Len(laidOut.items) : laidOut.items[k].row = row}

\* C23: in the 3-column reward grid the items of a full row start at the
\* content origin, one column and gutter apart, and a last row of fewer
\* than 3 items is centred in the content width: the middle between the
\* left edge of its first item and the right edge of its last item is the
\* middle of the content width (positions in half pixels).
C23_GridRowsAlignedOrCentred ==
  layoutPc # "mount" =>
    \A i \in 1..Len(pageLayout.sections) :
      LET laidOut == pageLayout.sections[i]
          originX == 2 * contentX(layoutStyle)
          colW == 2 * rewardColW(layoutStyle)
      IN  \A k \in 1..Len(laidOut.items) :
            LET item == laidOut.items[k]
                count == Cardinality(RowItems(laidOut, item.row))
            IN  /\ count <= rewardColCount
                /\ item.row < laidOut.rewardRows - 1 => count = rewardColCount
                /\ count = rewardColCount =>
                     item.x = originX + item.colInRow * (colW + 2 * rewardGutterX)
                /\ (count < rewardColCount /\ item.colInRow = 0) =>
                     /\ item.row = laidOut.rewardRows - 1
                     /\ 2 * item.x + (count - 1) * (colW + 2 * rewardGutterX) + colW
                          = 2 * originX + 2 * contentW(layoutStyle)

\* four rewards were laid out: the row of three and the row of one
C23_Witness ==
  /\ layoutPc = "committed"
  /\ \E i \in 1..Len(pageLayout.sections) :
       /\ Len(pageLayout.sections[i].items) = 4
       /\ pageLayout.sections[i].items[4].row = 1
       /\ pageLayout.sections[i].items[4].rendered
       /\ pageLayout.sections[i].items[4].x > 2 * contentX(layoutStyle)

\* C24: for any style values, non-finite padding, page width, font size
\* and line height included, the layout never hands a NaN or infinite
\* height to onMeasured, and the total it computes is finite because every
\* non-finite value was replaced by 0 before it entered the total.
C24_TotalAlwaysFinite ==
  /\ \A n \in 1..Len(measuredHeights) : isFinite(measuredHeights[n])
  /\ layoutPc # "mount" => isFinite(pageLayout.H)

\* the font values of the style are positive finite numbers
FiniteFont(st) ==
  /\ isFinite(st.font.size) /\ st.font.size.v > 0
  /\ isFinite(st.font.lineHeight) /\ st.font.lineHeight.v > 0

\* C29: for every reward, with its name and its description present or
\* absent, what RewardItem draws (image box, name line, description text)
\* ends within the row height the page layout reserved for the reward's
\* row, and the height RewardItem computes for itself is the item height
\* the page layout predicted for it.
C29_DrawnWithinReservedRow ==
  (layoutPc # "mount" /\ FiniteFont(layoutStyle)) =>
    \A i \in 1..Len(pageLayout.sections) :
      \A k \in 1..Len(pageLayout.sections[i].items) :
        LET item == pageLayout.sections[i].items[k]
        IN  /\ item.totalH = item.itemH
            /\ item.drawnBottom.v <= item.rowH.v

=============================================================================
